----------------------------- MODULE Api_proofs -----------------------------
(***************************************************************************)
(* Theorems of Api for any requests, users, rows and mixes of calls.  The  *)
(* invariant has a part for the pipeline, which every handler's steps go   *)
(* through, and one for each feature.                                      *)
(***************************************************************************)
EXTENDS Api, FiniteSetTheorems, TLAPS

Calls == UNION {m.calls : m \in Mixes}

\* Who owns the row of an id, and: nobody will create it any more.
OwnerOf(i) == IF i \in Existing THEN Owner ELSE Caller(i)
Minted(i) == i \in Existing \/ req[i].pc \notin {"new", "handler"}

-----------------------------------------------------------------------------
(* The pipeline. *)

Shape ==
    /\ DOMAIN req = Request
    /\ \A r \in Request :
        /\ DOMAIN req[r] = {"call", "pc", "row", "answer", "after"}
        /\ req[r].call \in Calls

\* What a request holds or answers is its caller's.
Own(r, row) == "user" \in DOMAIN row => row.user = Caller(r)

\* What a handler of an audited route returns has the id the entry is to name.
Names(r, row) ==
    Action(Route(r)) # "none" =>
        /\ "id" \in DOMAIN row
        /\ row.id = IF Action(Route(r)) = "CREATE" THEN r ELSE Target(r)

\* What answers from its first statement.
Listing == {"listTodos", "listNotes", "unreadCount", "listConsents"}

\* Each step belongs to its routes.
StepInv(r) ==
    /\ Route(r) \in Mounted => req[r].pc \in {"new", "waiting", "answered", "lost"}
    /\ req[r].pc = "waiting" => Route(r) \in Mounted
    /\ req[r].pc \in {"push", "sent", "skipped", "failed"} => Route(r) = "notify"
    /\ req[r].pc = "insert" => Route(r) \in {"accept", "revoke"}
    /\ req[r].pc = "reply" => Route(r) \notin Listing

HeldInv(r) ==
    /\ Own(r, req[r].row)
    /\ req[r].pc \in {"found", "reply"} => Names(r, req[r].row)

\* A failure that is told, unless it is an internal error, hid no change.
Refusal(answer) ==
    /\ answer.status \in {400, 401, 403, 404, 429, 500}
    /\ answer.data = Nothing
    /\ answer.code # NoCode /\ answer.status # 429 => Registry[answer.code] = answer.status

AnswerInv(r) ==
    LET answer == req[r].answer
    IN  IF ~Answered(r) THEN answer = NoAnswer
        ELSE \/ answer = Success(answer.data) /\ Own(r, answer.data)
             \/ /\ Refusal(answer)
                /\ answer.code # "INTERNAL_ERROR" => \A t \in trace : t.by # r

\* Only what has changed something is on its way out with it.
TraceInv ==
    \A t \in trace :
        /\ t.by \in Request /\ t.owner = Caller(t.by)
        /\ req[t.by].pc \in {"reply", "answered", "lost"}

AfterInv(r) == \A q \in req[r].after : q \in Request /\ Answered(q)

EntryInv(e) ==
    /\ e.request \in Request /\ Done(e.request)
    /\ e.actor = Caller(e.request)
    /\ e.id = IF e.action = "CREATE" THEN e.request ELSE Target(e.request)
    /\ e.action = Action(Route(e.request))

\* A request that succeeded on an audited route has one entry.
Logged(r) ==
    \E e \in Trail : e.request = r /\ \A f \in Trail : f.request = r => f = e

CoreInv ==
    /\ Shape
    /\ \A r \in Request : StepInv(r) /\ HeldInv(r) /\ AnswerInv(r) /\ AfterInv(r)
    /\ TraceInv
    /\ \A e \in Trail : EntryInv(e)
    /\ \A r \in Request : Done(r) /\ Action(Route(r)) # "none" => Logged(r)

-----------------------------------------------------------------------------
(* The features. *)

ReportRoutes == {"createReport", "listReports", "findReport", "updateReport", "removeReport"}

ReportRowInv(i) ==
    reports[i] # NoRow =>
        /\ DOMAIN reports[i] = {"id", "active", "by"} /\ reports[i].id = i
        /\ reports[i].active \in BOOLEAN /\ DOMAIN reports[i].by = Field
        /\ Minted(i)

Hidden(i) == reports[i] # NoRow => ~reports[i].active
PatchedBy(i, fields) == reports[i] # NoRow => \A f \in fields : reports[i].by[f] # Nobody

\* A removal acts on a row that was there, so that nobody will create it again.
ReportRequestInv(r) ==
    /\ Route(r) = "removeReport" =>
        /\ req[r].pc \in {"found", "reply"} \/ Done(r) => Minted(Target(r))
        /\ req[r].pc = "found" =>
            /\ "active" \in DOMAIN req[r].row
            /\ ~req[r].row.active => Hidden(Target(r))
        /\ req[r].pc = "reply" \/ Done(r) => Hidden(Target(r))
    /\ Route(r) = "updateReport" =>
        /\ req[r].pc \in {"found", "reply"} \/ Done(r) => Minted(Target(r))
        /\ req[r].pc = "reply" \/ Done(r) => PatchedBy(Target(r), req[r].call.patch \cap Field)

ReportInv ==
    /\ DOMAIN reports = Id
    /\ \A i \in Id : ReportRowInv(i)
    /\ \A r \in Request : ReportRequestInv(r)

TodoRoutes == {"createTodo", "listTodos", "findTodo", "updateTodo", "removeTodo"}

TodoRowInv(i) ==
    todos[i] # NoRow =>
        /\ DOMAIN todos[i] = {"id", "user", "by"} /\ todos[i].id = i
        /\ todos[i].user = OwnerOf(i)
        /\ Minted(i)

TodoRequestInv(r) ==
    /\ Route(r) = "removeTodo" =>
        /\ req[r].pc = "found" => Minted(Target(r)) /\ OwnerOf(Target(r)) = Caller(r)
        /\ req[r].pc = "reply" \/ Done(r) => Minted(Target(r)) /\ todos[Target(r)] = NoRow
    /\ Route(r) = "listTodos" /\ Done(r) =>
        \A i \in req[r].answer.data.ids : i \in Id /\ OwnerOf(i) = Caller(r)

TodoInv ==
    /\ DOMAIN todos = Id
    /\ \A i \in Id : TodoRowInv(i)
    /\ \A r \in Request : TodoRequestInv(r)

NoteRoutes == {"listNotes", "unreadCount", "markRead", "notify"}

NoteRowInv(i) ==
    /\ notes[i] # NoRow =>
        /\ DOMAIN notes[i] = {"id", "user", "read", "push"}
        /\ notes[i].user = OwnerOf(i)
        /\ Minted(i)
    /\ i \in Existing => notes[i] # NoRow

Read(i) == notes[i] # NoRow /\ notes[i].read # Nobody
Foreign(r, i) == notes[i] # NoRow /\ notes[i].user # Caller(r)

\* An update that found no unread row of the caller's came before there was
\* one, or it is read, or another's.
NoteRequestInv(r) ==
    /\ Route(r) = "notify" =>
        /\ req[r].pc \in {"push", "sent", "skipped", "failed"} => notes[r] # NoRow
        /\ req[r].pc = "reply" \/ Done(r) => notes[r] # NoRow /\ notes[r].push # "pending"
    /\ Route(r) = "markRead" =>
        /\ req[r].pc = "found" => r \in early \/ Foreign(r, Target(r)) \/ Read(Target(r))
        /\ req[r].pc = "reply" => Read(Target(r))
        /\ Done(r) => notes[Target(r)] # NoRow /\ (r \in early \/ Read(Target(r)))
    /\ Route(r) \in {"listNotes", "unreadCount"} /\ Done(r) =>
        \A i \in req[r].answer.data.ids : i \in Id /\ notes[i] # NoRow /\ OwnerOf(i) = Caller(r)

NoteInv ==
    /\ DOMAIN notes = Id
    /\ \A i \in Id : NoteRowInv(i)
    /\ \A r \in Request : NoteRequestInv(r)

ConsentRoutes == {"listDocuments", "findDocument", "listConsents", "accept", "revoke"}

\* The rows that have their time, visible or about to be.
Stamped == consents \cup {req[r].row : r \in {q \in Request : req[q].pc = "insert"}}

StampInv(c) ==
    /\ c.id \in Request /\ Route(c.id) \in {"accept", "revoke"}
    /\ c.at \in Nat /\ c.at <= clock
    /\ c = NewConsent(c.id, c.at)
    /\ c.version \in Version /\ documents[c.version] # "none"

\* A row is later than those whose answers its request had come after.
OrderInv ==
    /\ \A c, d \in Stamped : c.at = d.at => c = d
    /\ \A c \in consents, d \in Stamped : c.id \in req[d.id].after => c.at < d.at

ConsentRequestInv(r) ==
    /\ req[r].pc = "insert" => req[r].row.id = r
    /\ Route(r) \in {"accept", "revoke"} /\ req[r].pc = "found" =>
        documents[Target(r)] # "none"
    /\ Route(r) = "listConsents" /\ Done(r) =>
        \A i \in req[r].answer.data.ids : i \in Request /\ Caller(i) = Caller(r)

DocumentInv ==
    /\ DOMAIN documents = Version
    /\ \A v, w \in Version : documents[v] = "current" /\ documents[w] = "current" => v = w

ConsentInv ==
    /\ DocumentInv /\ clock \in Nat
    /\ \A c \in Stamped : StampInv(c)
    /\ \A c \in consents : req[c.id].pc \notin {"new", "handler", "found", "insert"}
    /\ OrderInv
    /\ \A r \in Request : ConsentRequestInv(r)

CacheRoutes == {"cachedRead", "bareRead", "evictingWrite"}

CacheInv ==
    /\ \A f \in filling :
        /\ DOMAIN f = {"by", "value", "raced"}
        /\ f.raced \/ f.value = source
    /\ FreshUnlessRaced
    /\ \A r \in evicting \cup evicted :
        r \in Request /\ Route(r) = "evictingWrite" /\ req[r].pc \notin {"new", "handler", "found"}

-----------------------------------------------------------------------------
(* The generator. *)

Fixed == {"untagged.md", "README.md", "enums.md"}
Generated == {FileOf[t] : t \in DOMAIN FileOf} \cup Fixed
Parsed(ops) == \A op \in ops : Tags(op) \subseteq DOMAIN FileOf
Settled == gen.pc = "idle" /\ gen.run > 0 /\ gen.run \notin gen.died
TagFiles == {FileOf[t] : t \in TagsOf(gen.ops) \ gen.tags}
Untagged == IF \E op \in gen.ops : Tags(op) = {} THEN {"untagged.md"} ELSE {}

GenInv ==
    /\ DOMAIN gen = {"pc", "ops", "tags", "run", "died"}
    /\ gen.pc \in {"idle", "clean", "tags", "readme", "enums", "index", "manifest"}
    /\ gen.run \in Nat /\ (gen.pc # "idle" => gen.run > 0 /\ gen.run \notin gen.died)
    /\ \A n \in gen.died : n \in Nat /\ n <= gen.run
    /\ Parsed(gen.ops) /\ gen.tags \subseteq TagsOf(gen.ops)
    /\ gen.pc = "clean" => gen.tags = TagsOf(gen.ops)
    /\ gen.pc \in {"readme", "enums", "index", "manifest"} \/ Settled => gen.tags = {}

FilesInv ==
    /\ DOMAIN files = File
    /\ \A f \in File : DOMAIN files[f] = {"run", "shows"} /\ files[f].run \in Nat
                        /\ files[f].run <= gen.run
    /\ HandwrittenKept
    /\ manifest \subseteq Generated

\* Files of earlier runs are in the manifest until the run has removed them.
EarlierInv ==
    \A f \in File : files[f].run > 0 =>
        \/ files[f].run \in gen.died
        \/ gen.pc \in {"idle", "clean"} /\ f \in manifest
        \/ gen.pc \notin {"idle", "clean"} /\ files[f].run = gen.run

\* The files of the run so far.
Made == {f \in File : files[f].run = gen.run}

MadeInv ==
    /\ gen.pc = "clean" => Made = {}
    /\ gen.pc = "tags" => Made = TagFiles
    /\ gen.pc = "readme" => Made = TagFiles \cup Untagged
    /\ gen.pc = "enums" => Made = TagFiles \cup Untagged \cup {"README.md"}
    /\ gen.pc \in {"index", "manifest"} => Made = Written(gen.ops)
    /\ Settled => Made = Written(gen.ops) /\ manifest = Written(gen.ops)

Alone(t) == FileOf[t] \notin Fixed /\ \A u \in TagsOf(gen.ops) \ {t} : FileOf[u] # FileOf[t]

ShowsInv ==
    /\ gen.pc \notin {"idle", "clean"} \/ Settled =>
        \A t \in TagsOf(gen.ops) \ gen.tags : Alone(t) => files[FileOf[t]].shows = OpsOf(t)
    /\ gen.pc \in {"enums", "index"} =>
        files["README.md"].shows = Written(gen.ops) \ {"README.md", "enums.md"}
    /\ gen.pc = "manifest" \/ Settled =>
        files["README.md"].shows = Written(gen.ops) \ {"README.md"}

ServerInv ==
    /\ release \in 1..Len(Specs)
    /\ fetched = Garbage \/ (DOMAIN fetched = {"ops", "enums", "garbage"} /\ Parsed(fetched.ops))
    /\ MobileScoped
    /\ DOMAIN postman = Mount /\ WaitersServed

\* The document that was parsed is of a release, and the dictionary of a later one.
FromRelease(ops) == \E n \in 1..release : ops = Specs[n].ops
Translated == gen.pc \in {"index", "manifest"} \/ Settled

DatedInv ==
    /\ fetched = Garbage \/ FromRelease(fetched.ops)
    /\ gen.pc # "idle" => FromRelease(gen.ops)
    /\ Translated =>
        \E n \in 1..release :
            /\ gen.ops = Specs[n].ops
            /\ \E k \in n..release : files["enums.md"].shows = Dictionary(Specs[k].enums)

DocsInv == GenInv /\ FilesInv /\ EarlierInv /\ MadeInv /\ ShowsInv /\ ServerInv /\ DatedInv

IInv == CoreInv /\ ReportInv /\ TodoInv /\ NoteInv /\ ConsentInv /\ CacheInv /\ DocsInv

-----------------------------------------------------------------------------
(* What the filter makes of the exceptions there are. *)

Exceptions ==
    {Http(400), Http(401), Http(404), Http(429), Unexpected, Domain("FORBIDDEN_ADMIN_ONLY"),
     Domain("BUG_REPORT_NOT_FOUND"), Domain("NOTIFICATION_NOT_FOUND"),
     Domain("LEGAL_DOCUMENT_NOT_FOUND_BY_SLUG")}

\* The catalogs give a code one status.
LEMMA OneStatus ==
    /\ Registry["VALIDATION_FAILED"] = 400 /\ Registry["UNAUTHORIZED"] = 401
    /\ Registry["NOT_FOUND"] = 404 /\ Registry["INTERNAL_ERROR"] = 500
    /\ Registry["FORBIDDEN_ADMIN_ONLY"] = 403 /\ Registry["BUG_REPORT_NOT_FOUND"] = 404
    /\ Registry["NOTIFICATION_NOT_FOUND"] = 404
    /\ Registry["LEGAL_DOCUMENT_NOT_FOUND_BY_SLUG"] = 404
    /\ {"FORBIDDEN_ADMIN_ONLY", "BUG_REPORT_NOT_FOUND", "NOTIFICATION_NOT_FOUND",
        "LEGAL_DOCUMENT_NOT_FOUND_BY_SLUG"} \subseteq DOMAIN Registry
  <1>1. ASSUME NEW code, NEW status, <<code, status>> \in Errors,
               \A e \in Errors : e[1] = code => e[2] = status
        PROVE  code \in DOMAIN Registry /\ Registry[code] = status
    <2> DEFINE e == CHOOSE e \in Errors : e[1] = code
    <2>1. e \in Errors /\ e[1] = code
      BY <1>1
    <2>2. code \in {d[1] : d \in Errors}
      BY <2>1
    <2>3. QED
      BY <1>1, <2>1, <2>2 DEF Registry
  <1>2. /\ <<"VALIDATION_FAILED", 400>> \in Errors /\ <<"UNAUTHORIZED", 401>> \in Errors
        /\ <<"NOT_FOUND", 404>> \in Errors /\ <<"INTERNAL_ERROR", 500>> \in Errors
        /\ <<"FORBIDDEN_ADMIN_ONLY", 403>> \in Errors /\ <<"BUG_REPORT_NOT_FOUND", 404>> \in Errors
        /\ <<"NOTIFICATION_NOT_FOUND", 404>> \in Errors
        /\ <<"LEGAL_DOCUMENT_NOT_FOUND_BY_SLUG", 404>> \in Errors
    BY DEF Errors, CommonErrors, FeatureErrors
  <1>3. ASSUME NEW e \in Errors
        PROVE  /\ e[1] = "VALIDATION_FAILED" => e[2] = 400
               /\ e[1] = "UNAUTHORIZED" => e[2] = 401
               /\ e[1] \in {"NOT_FOUND", "BUG_REPORT_NOT_FOUND", "NOTIFICATION_NOT_FOUND",
                            "LEGAL_DOCUMENT_NOT_FOUND_BY_SLUG"} => e[2] = 404
               /\ e[1] = "INTERNAL_ERROR" => e[2] = 500
               /\ e[1] = "FORBIDDEN_ADMIN_ONLY" => e[2] = 403
    BY DEF Errors, CommonErrors, FeatureErrors
  <1>4. QED
    BY <1>1, <1>2, <1>3

\* Anything else is an internal error.
LEMMA UnexpectedTold ==
    Failure(Unexpected) = [status |-> 500, code |-> "INTERNAL_ERROR", data |-> Nothing]
  BY DEF Failure, Unexpected

\* A failure that has the catalog's status, or that the throttler has given its own.
LEMMA Told ==
    ASSUME NEW answer, NEW status, NEW code,
           answer = [status |-> status, code |-> code, data |-> Nothing],
           status \in {400, 401, 403, 404, 429, 500},
           code # NoCode /\ status # 429 => Registry[code] = status
    PROVE  Refusal(answer) /\ ~Succeeded(answer)
  <1>1. answer.status = status /\ answer.code = code /\ answer.data = Nothing
    OBVIOUS
  <1>2. QED
    BY <1>1 DEF Refusal, Succeeded

\* Nor does an answer without an envelope promise anything.
LEMMA BareTold ==
    ASSUME NEW status \in {401, 500}
    PROVE  Refusal(Bare(status)) /\ ~Succeeded(Bare(status)) /\ Bare(status).code # "INTERNAL_ERROR"
  BY Told DEF Bare, NoCode

\* Every exception a step throws is told with the status of its code.
LEMMA FailureTold ==
    ASSUME NEW e \in Exceptions
    PROVE  Refusal(Failure(e)) /\ ~Succeeded(Failure(e))
  <1>1. ASSUME NEW status \in {400, 401, 404, 429}
        PROVE  Refusal(Failure(Http(status))) /\ ~Succeeded(Failure(Http(status)))
    <2>1. Failure(Http(status)) = [status |-> status, code |-> CodeForStatus(status), data |-> Nothing]
      BY DEF Failure, Http
    <2>2. /\ CodeForStatus(400) = "VALIDATION_FAILED" /\ CodeForStatus(401) = "UNAUTHORIZED"
          /\ CodeForStatus(404) = "NOT_FOUND" /\ CodeForStatus(429) = "INTERNAL_ERROR"
      BY DEF CodeForStatus
    <2>3. CodeForStatus(status) # NoCode /\ (status # 429 => Registry[CodeForStatus(status)] = status)
      BY <2>2, OneStatus DEF NoCode
    <2>4. QED
      BY <2>1, <2>3, Told
  <1>2. ASSUME NEW code \in {"FORBIDDEN_ADMIN_ONLY", "BUG_REPORT_NOT_FOUND", "NOTIFICATION_NOT_FOUND",
                             "LEGAL_DOCUMENT_NOT_FOUND_BY_SLUG"}
        PROVE  Refusal(Failure(Domain(code))) /\ ~Succeeded(Failure(Domain(code)))
    <2>0. code \in DOMAIN Registry
      BY OneStatus
    <2>1. Failure(Domain(code)) = [status |-> Registry[code], code |-> code, data |-> Nothing]
      BY <2>0 DEF Failure, Domain, ResolveErrorDefinition
    <2>2. Registry[code] \in {403, 404} /\ code # NoCode
      BY OneStatus DEF NoCode
    <2>3. QED
      BY <2>1, <2>2, Told
  <1>3. Refusal(Failure(Unexpected)) /\ ~Succeeded(Failure(Unexpected))
    BY UnexpectedTold, OneStatus, Told DEF NoCode
  <1>4. QED
    BY <1>1, <1>2, <1>3 DEF Exceptions

-----------------------------------------------------------------------------
(* What a step does to a request. *)

\* A request keeps its call, an answer stands, and no step leads back.
Flow(q) ==
    /\ DOMAIN req'[q] = DOMAIN req[q] /\ req'[q].call = req[q].call
    /\ Answered(q) => req'[q] = req[q]
    /\ req[q].pc \notin {"new", "handler"} => req'[q].pc \notin {"new", "handler"}
    /\ req[q].pc # "new" => req'[q].after = req[q].after

Flows == DOMAIN req' = Request /\ \A q \in Request : Flow(q)

Becomes(r, pc, row, answer, after) ==
    /\ DOMAIN req' = Request
    /\ \A q \in Request \ {r} : req'[q] = req[q]
    /\ DOMAIN req'[r] = DOMAIN req[r] /\ req'[r].call = req[r].call
    /\ req'[r].pc = pc /\ req'[r].row = row /\ req'[r].answer = answer /\ req'[r].after = after

\* What a step cannot change of a request, and of one that is answered.
LEMMA Kept ==
    ASSUME Shape, Flows
    PROVE  /\ Shape'
           /\ \A q \in Request : /\ Route(q)' = Route(q) /\ Target(q)' = Target(q)
                                 /\ Caller(q)' = Caller(q)
                                 /\ Answered(q) => Answered(q)' /\ (Done(q)' <=> Done(q))
  BY DEF Shape, Flows, Flow, Route, Target, Caller, Answered, Done

\* A move of one request obeys the flow.
LEMMA BecomesFlows ==
    ASSUME Shape, NEW r \in Request, NEW pc, NEW row, NEW answer, NEW after,
           Becomes(r, pc, row, answer, after), ~Answered(r),
           pc # "new", pc = "handler" => req[r].pc = "new",
           pc # "handler" => after = req[r].after
    PROVE  Flows
  <1>1. ASSUME NEW q \in Request PROVE Flow(q)
    <2>1. CASE q = r
      BY <2>1 DEF Becomes, Flow, Shape
    <2>2. CASE q # r
      BY <2>2 DEF Becomes, Flow, Shape
    <2>3. QED
      BY <2>1, <2>2
  <1>2. QED
    BY <1>1 DEF Becomes, Flows

\* The helpers of the handlers, as moves of one request.
LEMMA GotoMoves ==
    ASSUME Shape, NEW r \in Request, NEW pc, NEW row, Goto(r, pc, row)
    PROVE  Becomes(r, pc, row, req[r].answer, req[r].after) /\ UNCHANGED <<trace, auditVars>>
  BY DEF Shape, Goto, Becomes

\* A statement that changed rows: its owners are in the trace.
LEMMA WroteMoves ==
    ASSUME Shape, NEW r \in Request, NEW row, NEW owners, Wrote(r, row, owners)
    PROVE  /\ Becomes(r, "reply", row, req[r].answer, req[r].after) /\ UNCHANGED auditVars
           /\ trace' = trace \cup {[by |-> r, owner |-> u] : u \in owners}
  BY DEF Shape, Wrote, Becomes

\* A return: the entry sets out.
LEMMA ReturnMoves ==
    ASSUME Shape, NEW r \in Request, NEW row, Return(r, row)
    PROVE  /\ Becomes(r, "answered", NoRow, Success(row), req[r].after)
           /\ auditing' = auditing \cup Entries(r, req[r].call, row)
           /\ UNCHANGED <<trace, logs, lostLogs>>
  BY DEF Shape, Return, Becomes

\* A throw: nothing else changes.
LEMMA ThrowMoves ==
    ASSUME Shape, NEW r \in Request, NEW e, Throw(r, e)
    PROVE  /\ Becomes(r, "answered", NoRow, Failure(e), req[r].after)
           /\ UNCHANGED <<trace, auditVars>>
  BY DEF Shape, Throw, Becomes

-----------------------------------------------------------------------------
(* The pipeline's invariant. *)

\* What a move must meet to keep it, but for the audit trail.
MoveOK(r, pc, row, answer, after) ==
    /\ Route(r) \in Mounted => pc \in {"waiting", "answered", "lost"}
    /\ pc = "waiting" => Route(r) \in Mounted
    /\ pc \in {"push", "sent", "skipped", "failed"} => Route(r) = "notify"
    /\ pc = "insert" => Route(r) \in {"accept", "revoke"}
    /\ pc = "reply" => Route(r) \notin Listing
    /\ Own(r, row)
    /\ pc \in {"found", "reply"} => Names(r, row)
    /\ IF pc # "answered" THEN answer = NoAnswer
       ELSE \/ answer = Success(answer.data) /\ Own(r, answer.data)
            \/ Refusal(answer) /\ (answer.code # "INTERNAL_ERROR" => \A t \in trace' : t.by # r)
    /\ \A q \in after : q \in Request /\ Answered(q)
    /\ pc # "handler" => after = req[r].after
    /\ \A t \in trace' : t \in trace \/ (t.by = r /\ t.owner = Caller(r))
    /\ trace \subseteq trace'
    /\ \A t \in trace' : t.by = r => pc \in {"reply", "answered", "lost"}

\* A move that meets them keeps all but the trail's part.
LEMMA MoveKeeps ==
    ASSUME CoreInv, NEW r \in Request, NEW pc, NEW row, NEW answer, NEW after,
           Becomes(r, pc, row, answer, after), ~Answered(r),
           pc # "new", pc = "handler" => req[r].pc = "new",
           MoveOK(r, pc, row, answer, after)
    PROVE  /\ Flows /\ Shape' /\ TraceInv'
           /\ \A q \in Request : (StepInv(q) /\ HeldInv(q) /\ AnswerInv(q) /\ AfterInv(q))'
  <1>1. Flows
    BY BecomesFlows DEF CoreInv, MoveOK
  <1>2. /\ Shape'
        /\ \A q \in Request : /\ Route(q)' = Route(q) /\ Target(q)' = Target(q)
                              /\ Caller(q)' = Caller(q)
                              /\ Answered(q) => Answered(q)'
    BY <1>1, Kept DEF CoreInv
  <1>3. TraceInv'
    <2> SUFFICES ASSUME NEW t \in trace'
                 PROVE  (t.by \in Request /\ t.owner = Caller(t.by)
                         /\ req[t.by].pc \in {"reply", "answered", "lost"})'
      BY DEF TraceInv
    <2>1. CASE t.by = r
      BY <2>1, <1>2 DEF MoveOK, Becomes, CoreInv, TraceInv
    <2>2. CASE t.by # r
      BY <2>2, <1>2 DEF MoveOK, Becomes, CoreInv, TraceInv
    <2>3. QED
      BY <2>1, <2>2
  <1>4. ASSUME NEW q \in Request PROVE StepInv(q)'
    <2>1. StepInv(q)
      BY DEF CoreInv
    <2>2. CASE q = r
      BY <2>2, <1>2 DEF MoveOK, Becomes, StepInv
    <2>3. CASE q # r
      BY <2>1, <2>3, <1>2 DEF Becomes, StepInv
    <2>4. QED
      BY <2>2, <2>3
  <1>5. ASSUME NEW q \in Request PROVE HeldInv(q)'
    <2>1. HeldInv(q)
      BY DEF CoreInv
    <2>2. \A x : (Own(q, x)' <=> Own(q, x)) /\ (Names(q, x)' <=> Names(q, x))
      BY <1>2 DEF Own, Names
    <2>3. CASE q = r
      BY <2>2, <2>3 DEF MoveOK, Becomes, HeldInv
    <2>4. CASE q # r
      BY <2>1, <2>2, <2>4 DEF Becomes, HeldInv
    <2>5. QED
      BY <2>3, <2>4
  <1>6. ASSUME NEW q \in Request PROVE AnswerInv(q)'
    <2>1. AnswerInv(q)
      BY DEF CoreInv
    <2>2. \A x : Own(q, x)' <=> Own(q, x)
      BY <1>2 DEF Own
    <2>3. CASE q = r
      BY <2>2, <2>3 DEF MoveOK, Becomes, AnswerInv, Answered
    <2>4. CASE q # r
      BY <2>1, <2>2, <2>4 DEF MoveOK, Becomes, AnswerInv, Answered
    <2>5. QED
      BY <2>3, <2>4
  <1>7. ASSUME NEW q \in Request PROVE AfterInv(q)'
    <2>1. AfterInv(q)
      BY DEF CoreInv
    <2>2. CASE q = r
      BY <2>2, <1>2 DEF MoveOK, Becomes, AfterInv
    <2>3. CASE q # r
      BY <2>1, <2>3, <1>2 DEF Becomes, AfterInv
    <2>4. QED
      BY <2>2, <2>3
  <1>8. QED
    BY <1>1, <1>2, <1>3, <1>4, <1>5, <1>6, <1>7

\* Nothing enters the trail but by a handler's return.
LEMMA MoveCore ==
    ASSUME CoreInv, NEW r \in Request, NEW pc, NEW row, NEW answer, NEW after,
           Becomes(r, pc, row, answer, after), ~Answered(r),
           pc # "new", pc = "handler" => req[r].pc = "new",
           MoveOK(r, pc, row, answer, after),
           UNCHANGED auditVars,
           pc = "answered" /\ Action(Route(r)) # "none" => ~Succeeded(answer)
    PROVE  CoreInv' /\ Flows
  <1>1. /\ Flows /\ Shape' /\ TraceInv'
        /\ \A q \in Request : (StepInv(q) /\ HeldInv(q) /\ AnswerInv(q) /\ AfterInv(q))'
    BY MoveKeeps
  <1>2. \A q \in Request : /\ Route(q)' = Route(q) /\ Target(q)' = Target(q)
                           /\ Caller(q)' = Caller(q)
                           /\ Answered(q) => Answered(q)' /\ (Done(q)' <=> Done(q))
    BY <1>1, Kept DEF CoreInv
  <1>3. Trail' = Trail
    BY DEF Trail, auditVars
  <1>4. ASSUME NEW e \in Trail' PROVE EntryInv(e)'
    <2>1. EntryInv(e)
      BY <1>3 DEF CoreInv
    <2>2. QED
      BY <1>2, <2>1 DEF EntryInv, Done
  <1>5. ASSUME NEW q \in Request, Done(q)', Action(Route(q)') # "none" PROVE Logged(q)'
    <2>1. CASE q = r
      <3>1. Route(r)' = Route(r) /\ Succeeded(answer) /\ pc = "answered"
        BY <1>2, <1>5, <2>1 DEF Done, Becomes, Answered
      <3>2. QED
        BY <1>5, <2>1, <3>1
    <2>2. CASE q # r
      <3>1. Done(q) /\ Action(Route(q)) # "none"
        BY <1>2, <1>5, <2>2 DEF Done, Becomes, Answered
      <3>2. Logged(q)
        BY <3>1 DEF CoreInv
      <3>3. QED
        BY <1>3, <3>2 DEF Logged
    <2>3. QED
      BY <2>1, <2>2
  <1>6. QED
    BY <1>1, <1>4, <1>5 DEF CoreInv

\* A return adds the one entry of its request, and names its row.
LEMMA ReturnCore ==
    ASSUME CoreInv, NEW r \in Request, ~Answered(r), NEW row, Return(r, row),
           Own(r, row), Names(r, row)
    PROVE  CoreInv' /\ Flows
  <1> DEFINE new == Entries(r, req[r].call, row)
  <1>0. /\ Becomes(r, "answered", NoRow, Success(row), req[r].after)
        /\ auditing' = auditing \cup new /\ UNCHANGED <<trace, logs, lostLogs>>
    BY ReturnMoves DEF CoreInv
  <1>00. Success(row).data = row /\ Success(row).status = 200
    BY DEF Success
  <1>01. MoveOK(r, "answered", NoRow, Success(row), req[r].after)
    BY <1>0, <1>00 DEF MoveOK, CoreInv, AfterInv, Own, NoRow
  <1>1. /\ Flows /\ Shape' /\ TraceInv'
        /\ \A q \in Request : (StepInv(q) /\ HeldInv(q) /\ AnswerInv(q) /\ AfterInv(q))'
    BY <1>0, <1>01, MoveKeeps
  <1>2. \A q \in Request : /\ Route(q)' = Route(q) /\ Target(q)' = Target(q)
                           /\ Caller(q)' = Caller(q)
                           /\ Answered(q) => Answered(q)' /\ (Done(q)' <=> Done(q))
    BY <1>1, Kept DEF CoreInv
  <1>3. Trail' = Trail \cup new
    BY <1>0 DEF Trail
  <1>4. Done(r)'
    BY <1>0, <1>00 DEF Done, Answered, Becomes, Succeeded
  <1>5. ASSUME NEW e \in new
        PROVE  EntryInv(e)' /\ e.request = r
    <2>1. Action(Route(r)) # "none"
      BY DEF Entries, Route
    <2>2. /\ e.request = r /\ e.actor = Caller(r) /\ e.action = Action(Route(r))
          /\ e.id = row.id
      BY DEF Entries, Route, Caller
    <2>3. QED
      BY <1>2, <1>4, <2>1, <2>2 DEF EntryInv, Names
  <1>6. \A e \in Trail : e.request # r
    BY DEF CoreInv, EntryInv, Done
  <1>7. ASSUME NEW e \in Trail PROVE EntryInv(e)'
    <2>1. EntryInv(e)
      BY DEF CoreInv
    <2>2. QED
      BY <1>2, <2>1 DEF EntryInv, Done
  <1>8. ASSUME NEW q \in Request, Done(q)', Action(Route(q)') # "none" PROVE Logged(q)'
    <2>1. CASE q = r
      <3>1. Action(Route(r)) # "none"
        BY <1>2, <1>8, <2>1
      <3>2. \E e : new = {e}
        BY <3>1 DEF Entries, Names, Route
      <3>3. QED
        BY <1>3, <1>5, <1>6, <2>1, <3>2 DEF Logged
    <2>2. CASE q # r
      <3>1. Done(q) /\ Action(Route(q)) # "none"
        BY <1>2, <1>8, <2>2, <1>0 DEF Done, Becomes, Answered
      <3>2. Logged(q)
        BY <3>1 DEF CoreInv
      <3>3. QED
        BY <1>3, <1>5, <2>2, <3>2 DEF Logged
    <2>3. QED
      BY <2>1, <2>2
  <1>9. QED
    BY <1>1, <1>3, <1>5, <1>7, <1>8 DEF CoreInv

\* Before its reply a request has changed nothing.
LEMMA Unwritten ==
    ASSUME CoreInv, NEW r \in Request, req[r].pc \notin {"reply", "answered", "lost"}
    PROVE  \A t \in trace : t.by # r
  BY DEF CoreInv, TraceInv

\* A step that awaits the next call keeps the pipeline's invariant.
LEMMA GotoCore ==
    ASSUME CoreInv, NEW r \in Request, NEW pc, NEW row, Goto(r, pc, row),
           req[r].pc \notin {"reply", "answered", "lost"},
           pc \in {"found", "waiting", "insert", "push", "sent", "skipped", "failed"},
           Route(r) \in Mounted <=> pc = "waiting",
           pc \in {"push", "sent", "skipped", "failed"} => Route(r) = "notify",
           pc = "insert" => Route(r) \in {"accept", "revoke"},
           Own(r, row), pc = "found" => Names(r, row)
    PROVE  CoreInv' /\ Flows
  <1>1. Becomes(r, pc, row, req[r].answer, req[r].after) /\ UNCHANGED <<trace, auditVars>>
    BY GotoMoves DEF CoreInv
  <1>2. MoveOK(r, pc, row, req[r].answer, req[r].after)
    BY <1>1, Unwritten DEF MoveOK, CoreInv, AfterInv, AnswerInv, Answered
  <1>3. QED
    BY <1>1, <1>2, MoveCore DEF Answered

\* So does a statement that changes rows of the caller's.
LEMMA WroteCore ==
    ASSUME CoreInv, NEW r \in Request, NEW row, NEW owners, Wrote(r, row, owners),
           req[r].pc \notin {"reply", "answered", "lost"},
           Route(r) \notin Mounted \cup Listing, owners \subseteq {Caller(r)},
           Own(r, row), Names(r, row)
    PROVE  CoreInv' /\ Flows
  <1>1. /\ Becomes(r, "reply", row, req[r].answer, req[r].after) /\ UNCHANGED auditVars
        /\ trace' = trace \cup {[by |-> r, owner |-> u] : u \in owners}
    BY WroteMoves DEF CoreInv
  <1>2. MoveOK(r, "reply", row, req[r].answer, req[r].after)
    BY <1>1, Unwritten DEF MoveOK, CoreInv, AfterInv, AnswerInv, Answered
  <1>3. QED
    BY <1>1, <1>2, MoveCore DEF Answered

\* Who holds no row holds no one else's.
LEMMA NoRowHeld ==
    ASSUME NEW r PROVE Own(r, NoRow)
  BY DEF Own, NoRow

\* A throw before any statement has changed something tells the truth.
LEMMA ThrowCore ==
    ASSUME CoreInv, NEW r \in Request, NEW e \in Exceptions, Throw(r, e),
           req[r].pc \notin {"reply", "answered", "lost"}
    PROVE  CoreInv' /\ Flows
  <1>1. /\ Becomes(r, "answered", NoRow, Failure(e), req[r].after)
        /\ UNCHANGED <<trace, auditVars>>
    BY ThrowMoves DEF CoreInv
  <1>2. MoveOK(r, "answered", NoRow, Failure(e), req[r].after)
    BY <1>1, Unwritten, FailureTold, NoRowHeld DEF MoveOK, CoreInv, AfterInv
  <1>3. QED
    BY <1>1, <1>2, FailureTold, MoveCore DEF Answered

-----------------------------------------------------------------------------
(* What others, and the pipeline, do to a request of a feature. *)

Passed(q) ==
    \/ req'[q] = req[q]
    \/ req'[q].pc = "answered" /\ ~Succeeded(req'[q].answer)
    \/ req'[q].pc = "lost"
    \/ req[q].pc = "new" /\ req'[q].pc = "handler"
    \/ req[q].pc = "reply" /\ req'[q].pc = "answered" /\ req'[q].answer = Success(req[q].row)

\* A move of one request leaves the others where they are.
LEMMA OthersPass ==
    ASSUME NEW r \in Request, NEW pc, NEW row, NEW answer, NEW after,
           Becomes(r, pc, row, answer, after)
    PROVE  \A q \in Request : q # r => Passed(q)
  BY DEF Becomes, Passed

\* The guards, the filter, a fault, a death and a reply keep the pipeline's invariant.
LEMMA PipelineCore ==
    ASSUME CoreInv, NEW r \in Request, Pipeline(r)
    PROVE  CoreInv' /\ Flows /\ \A q \in Request : Passed(q)
  <1>0. Shape /\ StepInv(r) /\ HeldInv(r) /\ AnswerInv(r) /\ AfterInv(r)
    BY DEF CoreInv
  <1>1. CASE Reject(r)
    <2>1. PICK status \in {429, 400} :
              req' = [req EXCEPT ![r].pc = "answered", ![r].answer = Failure(Http(status))]
      BY <1>1 DEF Reject
    <2>2. /\ Becomes(r, "answered", req[r].row, Failure(Http(status)), req[r].after)
          /\ UNCHANGED <<trace, auditVars>>
      BY <1>0, <1>1, <2>1 DEF Reject, Becomes, Shape
    <2>3. Http(status) \in Exceptions /\ req[r].pc = "new"
      BY <1>1 DEF Reject, Exceptions
    <2>4. MoveOK(r, "answered", req[r].row, Failure(Http(status)), req[r].after)
      BY <1>0, <2>2, <2>3, Unwritten, FailureTold DEF MoveOK, HeldInv, AfterInv
    <2>5. CoreInv' /\ Flows
      BY <2>2, <2>3, <2>4, FailureTold, MoveCore DEF Answered
    <2>6. Passed(r)
      BY <2>2, <2>3, FailureTold DEF Becomes, Passed
    <2>7. QED
      BY <2>2, <2>5, <2>6, OthersPass
  <1>2. CASE Admit(r)
    <2>1. CASE ~Authenticates(r) \/ ~Authorizes(r)
      <3>1. PICK e \in Exceptions : Throw(r, e)
        BY <1>2, <2>1 DEF Admit, Exceptions
      <3>2. req[r].pc = "new"
        BY <1>2 DEF Admit
      <3>3. CoreInv' /\ Flows
        BY <3>1, <3>2, ThrowCore
      <3>4. Becomes(r, "answered", NoRow, Failure(e), req[r].after)
        BY <1>0, <3>1, ThrowMoves
      <3>5. Passed(r)
        BY <3>4, FailureTold DEF Becomes, Passed
      <3>6. QED
        BY <3>3, <3>4, <3>5, OthersPass
    <2>2. CASE Authenticates(r) /\ Authorizes(r)
      <3> DEFINE after == {q \in Request : Answered(q)}
      <3>1. /\ Becomes(r, "handler", req[r].row, req[r].answer, after)
            /\ UNCHANGED <<trace, auditVars>> /\ req[r].pc = "new" /\ Route(r) \notin Mounted
        BY <1>0, <1>2, <2>2 DEF Admit, Becomes, Shape
      <3>2. MoveOK(r, "handler", req[r].row, req[r].answer, after)
        BY <1>0, <3>1, Unwritten DEF MoveOK, HeldInv, AnswerInv, Answered
      <3>3. CoreInv' /\ Flows
        BY <3>1, <3>2, MoveCore DEF Answered
      <3>4. Passed(r)
        BY <3>1 DEF Becomes, Passed
      <3>5. QED
        BY <3>1, <3>3, <3>4, OthersPass
    <2>3. QED
      BY <2>1, <2>2
  <1>3. CASE Fault(r)
    <2>1. /\ Becomes(r, "answered", NoRow, Failure(Unexpected), req[r].after)
          /\ UNCHANGED <<trace, auditVars>> /\ ~Answered(r)
      BY <1>0, <1>3 DEF Fault, Pending, Becomes, Shape, Answered
    <2>2. Unexpected \in Exceptions
      BY DEF Exceptions
    <2>3. MoveOK(r, "answered", NoRow, Failure(Unexpected), req[r].after)
      BY <1>0, <2>1, <2>2, FailureTold, UnexpectedTold, NoRowHeld DEF MoveOK, AfterInv
    <2>4. CoreInv' /\ Flows
      BY <2>1, <2>2, <2>3, FailureTold, MoveCore
    <2>5. Passed(r)
      BY <2>1, <2>2, FailureTold DEF Becomes, Passed
    <2>6. QED
      BY <2>1, <2>4, <2>5, OthersPass
  <1>4. CASE Die(r)
    <2>1. /\ Becomes(r, "lost", NoRow, req[r].answer, req[r].after)
          /\ UNCHANGED <<trace, auditVars>> /\ ~Answered(r)
      BY <1>0, <1>4 DEF Die, Pending, Becomes, Shape, Answered
    <2>2. MoveOK(r, "lost", NoRow, req[r].answer, req[r].after)
      BY <1>0, <2>1, NoRowHeld DEF MoveOK, AfterInv, AnswerInv
    <2>3. CoreInv' /\ Flows
      BY <2>1, <2>2, MoveCore
    <2>4. Passed(r)
      BY <2>1 DEF Becomes, Passed
    <2>5. QED
      BY <2>1, <2>3, <2>4, OthersPass
  <1>5. CASE Reply(r)
    <2>1. Return(r, req[r].row) /\ req[r].pc = "reply"
      BY <1>5 DEF Reply
    <2>2. CoreInv' /\ Flows
      BY <1>0, <2>1, ReturnCore DEF HeldInv, Answered
    <2>3. Becomes(r, "answered", NoRow, Success(req[r].row), req[r].after)
      BY <1>0, <2>1, ReturnMoves
    <2>4. Passed(r)
      BY <2>1, <2>3 DEF Becomes, Passed
    <2>5. QED
      BY <2>2, <2>3, <2>4, OthersPass
  <1>6. QED
    BY <1>1, <1>2, <1>3, <1>4, <1>5 DEF Pipeline

-----------------------------------------------------------------------------
(* The steps behind the requests. *)

\* An entry that arrives or is lost was in the trail, and stays there.
LEMMA AuditCore ==
    ASSUME CoreInv, Audit
    PROVE  CoreInv'
  <1>1. PICK e \in auditing : LogChange(e) \/ LoseChange(e)
    BY DEF Audit
  <1>2. Trail' = Trail
    BY <1>1 DEF LogChange, LoseChange, Trail
  <1>3. UNCHANGED requestVars
    BY DEF Audit
  <1>4. Shape' /\ TraceInv'
    BY <1>3 DEF CoreInv, Shape, TraceInv, Caller, requestVars
  <1>5. ASSUME NEW r \in Request
        PROVE  (StepInv(r) /\ HeldInv(r) /\ AnswerInv(r) /\ AfterInv(r))'
    <2>1. StepInv(r) /\ HeldInv(r) /\ AnswerInv(r) /\ AfterInv(r)
      BY DEF CoreInv
    <2>2. QED
      BY <1>3, <2>1
      DEF StepInv, HeldInv, AnswerInv, AfterInv, Own, Names, Route, Target, Caller, Answered,
          requestVars
  <1>6. ASSUME NEW f \in Trail' PROVE EntryInv(f)'
    <2>1. EntryInv(f)
      BY <1>2 DEF CoreInv
    <2>2. QED
      BY <1>3, <2>1 DEF EntryInv, Done, Answered, Route, Target, Caller, requestVars
  <1>7. ASSUME NEW r \in Request, Done(r)', Action(Route(r)') # "none" PROVE Logged(r)'
    <2>1. Done(r) /\ Action(Route(r)) # "none"
      BY <1>3, <1>7 DEF Done, Answered, Route, requestVars
    <2>2. Logged(r)
      BY <2>1 DEF CoreInv
    <2>3. QED
      BY <1>2, <2>2 DEF Logged
  <1>8. QED
    BY <1>4, <1>5, <1>6, <1>7 DEF CoreInv

\* What leaves requests, trace and trail alone keeps the pipeline's invariant.
LEMMA StillCore ==
    ASSUME CoreInv, UNCHANGED <<req, trace, auditVars>>
    PROVE  CoreInv'
  BY DEF CoreInv, Shape, TraceInv, StepInv, HeldInv, AnswerInv, AfterInv, EntryInv, Logged, Trail,
         Own, Names, Done, Answered, Route, Target, Caller, auditVars

\* A conversion that ends, or a release, ends the requests that wait for it.
Ends(q, done) ==
    /\ DOMAIN req'[q] = DOMAIN req[q] /\ req'[q].call = req[q].call
    /\ req'[q].row = req[q].row /\ req'[q].after = req[q].after
    /\ \/ done /\ req'[q].pc = "answered"
          /\ \/ \E m \in Mount : req'[q].answer = Success([ids |-> Document(m)])
             \/ req'[q].answer = Bare(500)
       \/ ~done /\ req'[q].pc = "lost" /\ req'[q].answer = req[q].answer

\* What ends those who wait for a conversion keeps the pipeline's invariant.
LEMMA EndsCore ==
    ASSUME CoreInv, NEW done \in BOOLEAN, DOMAIN req' = Request, UNCHANGED <<trace, auditVars>>,
           \A q \in Request : req'[q] = req[q] \/ (req[q].pc = "waiting" /\ Ends(q, done))
    PROVE  /\ CoreInv' /\ Flows
           /\ \A q \in Request : Route(q) \notin Mounted => req'[q] = req[q]
  <1>1. ASSUME NEW q \in Request PROVE Flow(q) /\ (Route(q) \notin Mounted => req'[q] = req[q])
    <2>1. StepInv(q)
      BY DEF CoreInv
    <2>2. QED
      BY <2>1 DEF Flow, Ends, StepInv, Answered
  <1>2. Flows
    BY <1>1 DEF Flows
  <1>3. /\ Shape'
        /\ \A q \in Request : /\ Route(q)' = Route(q) /\ Target(q)' = Target(q)
                              /\ Caller(q)' = Caller(q)
                              /\ Answered(q) => Answered(q)' /\ (Done(q)' <=> Done(q))
    BY <1>2, Kept DEF CoreInv
  <1>4. Trail' = Trail
    BY DEF Trail, auditVars
  <1>5. TraceInv'
    <2> SUFFICES ASSUME NEW t \in trace'
                 PROVE  (t.by \in Request /\ t.owner = Caller(t.by)
                         /\ req[t.by].pc \in {"reply", "answered", "lost"})'
      BY DEF TraceInv
    <2>1. t.by \in Request /\ t.owner = Caller(t.by) /\ req[t.by].pc \in {"reply", "answered", "lost"}
      BY DEF CoreInv, TraceInv
    <2>2. QED
      BY <1>3, <2>1
  <1>6. ASSUME NEW q \in Request PROVE (StepInv(q) /\ HeldInv(q) /\ AnswerInv(q) /\ AfterInv(q))'
    <2>1. StepInv(q) /\ HeldInv(q) /\ AnswerInv(q) /\ AfterInv(q)
      BY DEF CoreInv
    <2>2. \A x : (Own(q, x)' <=> Own(q, x)) /\ (Names(q, x)' <=> Names(q, x))
      BY <1>3 DEF Own, Names
    <2>3. StepInv(q)'
      BY <1>3, <2>1 DEF StepInv, Ends
    <2>4. HeldInv(q)'
      BY <2>1, <2>2 DEF HeldInv, Ends
    <2>5. AfterInv(q)'
      BY <1>3, <2>1 DEF AfterInv, Ends
    <2>6. AnswerInv(q)'
      <3>1. CASE req'[q] = req[q]
        BY <2>1, <2>2, <3>1 DEF AnswerInv, Answered
      <3>2. CASE req[q].pc = "waiting" /\ Ends(q, TRUE)
        <4>1. \A t \in trace' : t.by # q
          BY <3>2 DEF CoreInv, TraceInv
        <4>2. CASE req'[q].answer = Bare(500)
          BY <3>2, <4>1, <4>2, BareTold DEF AnswerInv, Answered, Ends
        <4>3. ASSUME NEW m \in Mount, req'[q].answer = Success([ids |-> Document(m)])
              PROVE  AnswerInv(q)'
          <5> DEFINE data == [ids |-> Document(m)]
          <5>1. Success(data).data = data /\ Own(q, data)
            BY DEF Success, Own
          <5>2. QED
            BY <2>2, <3>2, <4>3, <5>1 DEF AnswerInv, Answered, Ends
        <4>4. \/ \E m \in Mount : req'[q].answer = Success([ids |-> Document(m)])
              \/ req'[q].answer = Bare(500)
          BY <3>2 DEF Ends
        <4>5. QED
          BY <4>2, <4>3, <4>4
      <3>3. CASE req[q].pc = "waiting" /\ Ends(q, FALSE)
        BY <2>1, <3>3 DEF AnswerInv, Answered, Ends
      <3>4. QED
        BY <3>1, <3>2, <3>3
    <2>7. QED
      BY <2>3, <2>4, <2>5, <2>6
  <1>7. ASSUME NEW e \in Trail' PROVE EntryInv(e)'
    <2>1. EntryInv(e)
      BY <1>4 DEF CoreInv
    <2>2. QED
      BY <1>3, <2>1 DEF EntryInv, Done
  <1>8. ASSUME NEW q \in Request, Done(q)', Action(Route(q)') # "none" PROVE Logged(q)'
    <2>1. Route(q) \notin Mounted
      BY <1>3, <1>8 DEF Action, Mounted
    <2>2. Done(q) /\ Action(Route(q)) # "none"
      BY <1>1, <1>3, <1>8, <2>1 DEF Done, Answered
    <2>3. Logged(q)
      BY <2>2 DEF CoreInv
    <2>4. QED
      BY <1>4, <2>3 DEF Logged
  <1>9. QED
    BY <1>1, <1>2, <1>3, <1>5, <1>6, <1>7, <1>8 DEF CoreInv

\* Who waits is told the result, and the others stay where they are.
LEMMA ServedMoves ==
    ASSUME Shape, NEW m \in Mount, NEW result, req' = Served(m, result)
    PROVE  /\ DOMAIN req' = Request
           /\ \A q \in Request : ~Waits(q, m) => req'[q] = req[q]
           /\ \A q \in Request : Waits(q, m) =>
                /\ DOMAIN req'[q] = DOMAIN req[q] /\ req'[q].call = req[q].call
                /\ req'[q].row = req[q].row /\ req'[q].after = req[q].after
                /\ req'[q].pc = "answered" /\ req'[q].answer = result
  <1> DEFINE ended(r) == [req[r] EXCEPT !.pc = "answered", !.answer = result]
  <1>1. req' = [r \in Request |-> IF Waits(r, m) THEN ended(r) ELSE req[r]]
    BY Zenon DEF Served
  <1>2. ASSUME NEW q \in Request
        PROVE  /\ DOMAIN ended(q) = DOMAIN req[q] /\ ended(q).call = req[q].call
               /\ ended(q).row = req[q].row /\ ended(q).after = req[q].after
               /\ ended(q).pc = "answered" /\ ended(q).answer = result
    BY DEF Shape
  <1> HIDE DEF ended
  <1>3. DOMAIN req' = Request /\ \A q \in Request : req'[q] = IF Waits(q, m) THEN ended(q) ELSE req[q]
    BY <1>1, Zenon
  <1>4. QED
    BY <1>2, <1>3, Zenon

\* The end of a conversion touches the requests in front of the guards only.
LEMMA ConvertedCore ==
    ASSUME CoreInv, NEW m \in Mount, Converted(m)
    PROVE  /\ CoreInv' /\ Flows
           /\ \A q \in Request : Route(q) \notin Mounted => req'[q] = req[q]
  <1>1. PICK result \in {Success([ids |-> Document(m)]), Bare(500)} : req' = Served(m, result)
    BY DEF Converted
  <1>2. ASSUME NEW q \in Request
        PROVE  req'[q] = req[q] \/ (req[q].pc = "waiting" /\ Ends(q, TRUE))
    <2>1. CASE ~Waits(q, m)
      BY <1>1, <2>1, ServedMoves DEF CoreInv
    <2>2. CASE Waits(q, m)
      BY <1>1, <2>2, ServedMoves DEF CoreInv, Ends, Waits
    <2>3. QED
      BY <2>1, <2>2
  <1>3. DOMAIN req' = Request /\ UNCHANGED <<trace, auditVars>>
    BY <1>1, ServedMoves DEF Converted, CoreInv
  <1>4. QED
    BY <1>2, <1>3, EndsCore

\* So does a release.
LEMMA ReleaseCore ==
    ASSUME CoreInv, Release
    PROVE  /\ CoreInv' /\ Flows
           /\ \A q \in Request : Route(q) \notin Mounted => req'[q] = req[q]
  <1>1. ASSUME NEW q \in Request
        PROVE  req'[q] = req[q] \/ (req[q].pc = "waiting" /\ Ends(q, FALSE))
    BY DEF Release, CoreInv, Shape, Ends
  <1>2. DOMAIN req' = Request /\ UNCHANGED <<trace, auditVars>>
    BY DEF Release
  <1>3. QED
    BY <1>1, <1>2, EndsCore

-----------------------------------------------------------------------------
(* Bug reports. *)

\* A call that names a report names one there may be.
LEMMA ReportTarget ==
    ASSUME Shape, NEW r \in Request, Route(r) \in {"findReport", "updateReport", "removeReport"}
    PROVE  Target(r) \in Id
  BY ReportIds DEF Shape, Calls, Route, Target

\* What nobody will create any more stays so.
LEMMA MintedStays ==
    ASSUME Flows, NEW i \in Id, Minted(i)
    PROVE  Minted(i)'
  BY DEF Flows, Flow, Minted, Id

\* A success stands.
LEMMA DoneStays ==
    ASSUME Flows, NEW q \in Request, Done(q)
    PROVE  req'[q] = req[q]
  BY DEF Flows, Flow, Done

\* What a change of the table may not undo.
ReportsFollow ==
    \A i \in Id : Minted(i) =>
        /\ Hidden(i) => Hidden(i)'
        /\ \A fields \in SUBSET Field : PatchedBy(i, fields) => PatchedBy(i, fields)'

\* What the feature promises a request outlives the steps of others.
LEMMA ReportRequestKept ==
    ASSUME Shape, Flows, ReportsFollow, NEW q \in Request, ReportRequestInv(q),
           Route(q) \in ReportRoutes => Passed(q)
    PROVE  ReportRequestInv(q)'
  <1>1. /\ Route(q)' = Route(q) /\ Target(q)' = Target(q) /\ req'[q].call = req[q].call
    BY Kept DEF Flows, Flow
  <1>2. SUFFICES ASSUME Route(q) \in {"removeReport", "updateReport"} PROVE ReportRequestInv(q)'
    BY <1>1 DEF ReportRequestInv
  <1>3. PICK t \in Id : t = Target(q) /\ t = Target(q)'
    BY <1>1, <1>2, ReportTarget
  <1>4. PICK fields \in SUBSET Field : fields = req[q].call.patch \cap Field
                                       /\ fields = req'[q].call.patch \cap Field
    BY <1>1
  <1>5. Minted(t) => /\ Minted(t)' /\ (Hidden(t) => Hidden(t)')
                     /\ (PatchedBy(t, fields) => PatchedBy(t, fields)')
    BY MintedStays DEF ReportsFollow
  <1>6. Passed(q)
    BY <1>2 DEF ReportRoutes
  <1>7. Done(q)' => Done(q) \/ req[q].pc = "reply"
    BY <1>6 DEF Passed, Done, Answered
  <1>8. req'[q].pc \in {"found", "reply"} => req'[q] = req[q]
    BY <1>6 DEF Passed
  <1>9. ReportRequestInv(q)' <=>
            /\ Route(q) = "removeReport" =>
                /\ req'[q].pc \in {"found", "reply"} \/ Done(q)' => Minted(t)'
                /\ req'[q].pc = "found" =>
                    /\ "active" \in DOMAIN req'[q].row
                    /\ ~req'[q].row.active => Hidden(t)'
                /\ req'[q].pc = "reply" \/ Done(q)' => Hidden(t)'
            /\ Route(q) = "updateReport" =>
                /\ req'[q].pc \in {"found", "reply"} \/ Done(q)' => Minted(t)'
                /\ req'[q].pc = "reply" \/ Done(q)' => PatchedBy(t, fields)'
    BY <1>1, <1>3, <1>4 DEF ReportRequestInv, Minted, Hidden, PatchedBy
  <1>10. CASE Route(q) = "removeReport"
    BY <1>3, <1>5, <1>7, <1>8, <1>9, <1>10, DoneStays DEF ReportRequestInv
  <1>11. CASE Route(q) = "updateReport"
    BY <1>3, <1>4, <1>5, <1>7, <1>8, <1>9, <1>11, DoneStays DEF ReportRequestInv
  <1>12. QED
    BY <1>2, <1>10, <1>11

\* A step that leaves the table alone takes nothing back.
LEMMA ReportsStand ==
    ASSUME Flows, ReportInv, UNCHANGED reports
    PROVE  DOMAIN reports' = Id /\ (\A i \in Id : ReportRowInv(i)') /\ ReportsFollow
  <1>1. ASSUME NEW i \in Id PROVE ReportRowInv(i)'
    BY MintedStays DEF ReportInv, ReportRowInv
  <1>2. ReportsFollow
    BY DEF ReportsFollow, Hidden, PatchedBy
  <1>3. QED
    BY <1>1, <1>2 DEF ReportInv

\* The steps of other features and of the pipeline keep this one's invariant.
LEMMA ReportsElsewhere ==
    ASSUME Shape, Flows, ReportInv, UNCHANGED reports,
           \A q \in Request : Route(q) \in ReportRoutes => Passed(q)
    PROVE  ReportInv'
  BY ReportsStand, ReportRequestKept DEF ReportInv

\* The routes that are audited, and as what.
LEMMA Audited ==
    /\ Action("createReport") = "CREATE" /\ Action("createTodo") = "CREATE"
    /\ Action("updateReport") = "UPDATE" /\ Action("removeReport") = "SOFT_DELETE"
    /\ \A route : route \notin {"createReport", "createTodo", "updateReport", "removeReport"} =>
            Action(route) = "none"
  BY DEF Action

\* What a route without @Audit returns is not logged.
LEMMA UnauditedNames ==
    ASSUME NEW r, Route(r) \notin {"createReport", "createTodo", "updateReport", "removeReport"},
           NEW row
    PROVE  Names(r, row)
  BY Audited DEF Names

\* A move of one request is of that request alone.
LEMMA OthersStay ==
    ASSUME NEW r \in Request, NEW pc, NEW row, NEW answer, NEW after,
           Becomes(r, pc, row, answer, after)
    PROVE  \A q \in Request : q # r => req'[q] = req[q]
  BY DEF Becomes

\* The steps of the routes, once their own request and the table are seen to.
LEMMA ReportsActed ==
    ASSUME Shape, Flows, ReportInv, NEW r \in Request,
           \A q \in Request : q # r => req'[q] = req[q],
           DOMAIN reports' = Id, \A i \in Id : ReportRowInv(i)', ReportsFollow,
           ReportRequestInv(r)'
    PROVE  ReportInv'
  <1>1. \A q \in Request : q # r => Passed(q)
    BY DEF Passed
  <1>2. \A q \in Request : q # r => ReportRequestInv(q)'
    BY <1>1, ReportRequestKept DEF ReportInv
  <1>3. QED
    BY <1>2 DEF ReportInv

\* A new row has an id that had none, so that no promise was made about it.
LEMMA CreateReportKeeps ==
    ASSUME CoreInv, ReportInv, NEW r \in Request, CreateReport(r)
    PROVE  CoreInv' /\ Flows /\ ReportInv' /\ \A q \in Request : q # r => req'[q] = req[q]
  <1> DEFINE row == NewReport(r)
  <1>0. /\ Shape /\ Route(r) = "createReport" /\ req[r].pc = "handler" /\ r \in Id
        /\ Wrote(r, row, {Caller(r)}) /\ reports' = [reports EXCEPT ![r] = row]
    BY DEF CoreInv, CreateReport, At, Id
  <1>1. DOMAIN row = {"id", "active", "by"} /\ row.id = r /\ row.active = TRUE /\ DOMAIN row.by = Field
    BY DEF NewReport
  <1>2. Own(r, row) /\ Names(r, row)
    BY <1>0, <1>1, Audited DEF Own, Names
  <1>3. CoreInv' /\ Flows
    BY <1>0, <1>2, WroteCore DEF Mounted, Listing
  <1>4. Becomes(r, "reply", row, req[r].answer, req[r].after)
    BY <1>0, WroteMoves
  <1>5. ReportRequestInv(r)'
    BY <1>0, <1>4, Kept, <1>3 DEF ReportRequestInv
  <1>6. ASSUME NEW i \in Id PROVE ReportRowInv(i)'
    <2>1. CASE i = r
      BY <1>0, <1>1, <1>4, <2>1 DEF ReportInv, ReportRowInv, Minted, Becomes
    <2>2. CASE i # r
      BY <1>0, <1>3, <2>2, MintedStays DEF ReportInv, ReportRowInv
    <2>3. QED
      BY <2>1, <2>2
  <1>7. ReportsFollow
    <2>1. ~Minted(r)
      BY <1>0, IdAssumption DEF Minted
    <2>2. QED
      BY <1>0, <2>1 DEF ReportsFollow, ReportInv, Hidden, PatchedBy
  <1>8. QED
    BY <1>0, <1>3, <1>4, <1>5, <1>6, <1>7, ReportsActed, OthersStay DEF ReportInv

\* A step of a request that ends with an error asks nothing of its feature.
LEMMA ThrowEnds ==
    ASSUME CoreInv, NEW r \in Request, NEW e \in Exceptions, Throw(r, e),
           req[r].pc \notin {"reply", "answered", "lost"}
    PROVE  /\ CoreInv' /\ Flows
           /\ req'[r].pc = "answered" /\ ~Done(r)'
           /\ \A q \in Request : q # r => req'[q] = req[q]
  <1>1. Becomes(r, "answered", NoRow, Failure(e), req[r].after)
    BY ThrowMoves DEF CoreInv
  <1>2. QED
    BY <1>1, FailureTold, ThrowCore, OthersStay DEF Becomes, Done

\* A list changes nothing.
LEMMA ListReportsKeeps ==
    ASSUME CoreInv, ReportInv, NEW r \in Request, ListReports(r)
    PROVE  CoreInv' /\ Flows /\ ReportInv' /\ \A q \in Request : q # r => req'[q] = req[q]
  <1>0. PICK row : /\ Return(r, row) /\ DOMAIN row = {"ids"}
    BY DEF ListReports
  <1>1. /\ Shape /\ Route(r) = "listReports" /\ req[r].pc = "handler" /\ UNCHANGED reports
    BY DEF CoreInv, ListReports, At
  <1>2. Own(r, row) /\ Names(r, row)
    BY <1>0, <1>1, UnauditedNames DEF Own
  <1>3. CoreInv' /\ Flows
    BY <1>0, <1>1, <1>2, ReturnCore DEF Answered
  <1>4. \A q \in Request : q # r => req'[q] = req[q]
    BY <1>0, <1>1, ReturnMoves, OthersStay
  <1>5. ReportRequestInv(r)'
    BY <1>1, <1>3, Kept DEF ReportRequestInv
  <1>6. QED
    BY <1>1, <1>3, <1>4, <1>5, ReportsStand, ReportsActed

\* The row that is found will not be created again.
LEMMA FindReportKeeps ==
    ASSUME CoreInv, ReportInv, NEW r \in Request, FindReport(r)
    PROVE  CoreInv' /\ Flows /\ ReportInv' /\ \A q \in Request : q # r => req'[q] = req[q]
  <1> DEFINE row == ReportRow(Target(r), IncludesInactive(r))
             Goal == CoreInv' /\ Flows /\ ReportRequestInv(r)'
                        /\ \A q \in Request : q # r => req'[q] = req[q]
  <1>0. /\ Shape /\ Route(r) \in {"findReport", "updateReport", "removeReport"}
        /\ req[r].pc = "handler" /\ UNCHANGED reports
    BY DEF CoreInv, FindReport, At
  <1>1. PICK t \in Id : t = Target(r)
    BY <1>0, ReportTarget
  <1>2. CASE row = NoRow
    <2>1. Throw(r, Domain("BUG_REPORT_NOT_FOUND"))
      BY <1>2 DEF FindReport
    <2>2. Domain("BUG_REPORT_NOT_FOUND") \in Exceptions
      BY DEF Exceptions
    <2>3. /\ CoreInv' /\ Flows
          /\ req'[r].pc = "answered" /\ ~Done(r)'
          /\ \A q \in Request : q # r => req'[q] = req[q]
      BY <1>0, <2>1, <2>2, ThrowEnds
    <2>4. ReportRequestInv(r)'
      BY <2>3 DEF ReportRequestInv
    <2>5. Goal
      BY <2>3, <2>4
    <2>6. QED
      BY <1>0, <2>5, ReportsStand, ReportsActed
  <1>3. CASE row # NoRow
    <2>1. /\ row = reports[t] /\ reports[t] # NoRow
          /\ DOMAIN row = {"id", "active", "by"} /\ row.id = t /\ Minted(t)
      BY <1>1, <1>3 DEF ReportRow, ReportInv, ReportRowInv
    <2>2. Own(r, row) /\ Names(r, row)
      BY <1>0, <1>1, <2>1, Audited, UnauditedNames DEF Own, Names
    <2>3. CASE Return(r, row) /\ (Route(r) = "findReport" \/ (Route(r) = "updateReport" /\ req[r].call.patch = {}))
      <3>1. CoreInv' /\ Flows
        BY <1>0, <2>2, <2>3, ReturnCore DEF Answered
      <3>2. Becomes(r, "answered", NoRow, Success(row), req[r].after)
        BY <1>0, <2>3, ReturnMoves
      <3>3. Route(r)' = Route(r) /\ Target(r)' = t /\ req'[r].call.patch = req[r].call.patch
        BY <1>0, <1>1, <3>1, Kept DEF Flows, Flow
      <3>4. Minted(t)'
        BY <2>1, <3>1, MintedStays
      <3>5. ReportRequestInv(r)'
        BY <2>3, <3>3, <3>4 DEF ReportRequestInv, Minted, PatchedBy
      <3>6. Goal
        BY <3>1, <3>2, <3>5, OthersStay
      <3>7. QED
        BY <1>0, <3>6, ReportsStand, ReportsActed
    <2>4. CASE Goto(r, "found", row)
      <3>1. CoreInv' /\ Flows
        BY <1>0, <2>2, <2>4, GotoCore DEF Mounted
      <3>2. Becomes(r, "found", row, req[r].answer, req[r].after)
        BY <1>0, <2>4, GotoMoves
      <3>3. Route(r)' = Route(r) /\ Target(r)' = t
        BY <1>0, <1>1, <3>1, Kept
      <3>4. Minted(t)'
        BY <2>1, <3>1, MintedStays
      <3>5. req'[r].pc = "found" /\ req'[r].row = row /\ ~Done(r)'
        BY <3>2 DEF Becomes, Done, Answered
      <3>6. ~row.active => Hidden(t)'
        BY <1>0, <2>1 DEF Hidden
      <3>7. ReportRequestInv(r)'
        BY <2>1, <3>3, <3>4, <3>5, <3>6 DEF ReportRequestInv, Minted, Hidden
      <3>8. Goal
        BY <3>1, <3>2, <3>7, OthersStay
      <3>9. QED
        BY <1>0, <3>8, ReportsStand, ReportsActed
    <2>5. QED
      BY <1>3, <2>3, <2>4 DEF FindReport
  <1>4. QED
    BY <1>2, <1>3

\* The second read of an answer changes nothing.
LEMMA AddAttachmentsKeeps ==
    ASSUME CoreInv, ReportInv, NEW r \in Request, AddAttachments(r)
    PROVE  CoreInv' /\ Flows /\ ReportInv' /\ \A q \in Request : q # r => req'[q] = req[q]
  <1>1. /\ Shape /\ Route(r) = "findReport" /\ req[r].pc = "found" /\ UNCHANGED reports
        /\ Return(r, req[r].row) /\ HeldInv(r)
    BY DEF CoreInv, AddAttachments, At
  <1>2. CoreInv' /\ Flows
    BY <1>1, ReturnCore DEF HeldInv, Answered
  <1>3. \A q \in Request : q # r => req'[q] = req[q]
    BY <1>1, ReturnMoves, OthersStay
  <1>4. ReportRequestInv(r)'
    BY <1>1, <1>2, Kept DEF ReportRequestInv
  <1>5. QED
    BY <1>1, <1>2, <1>3, <1>4, ReportsStand, ReportsActed

\* The second statement of a patch or a removal: what it must do to the row.
LEMMA ReportWritten ==
    ASSUME CoreInv, ReportInv, NEW r \in Request, NEW t \in Id, t = Target(r),
           Route(r) \in {"updateReport", "removeReport"}, req[r].pc = "found",
           NEW row, Wrote(r, row, {Caller(r)}), Own(r, row), Names(r, row),
           NEW new,
           DOMAIN reports' = Id, reports'[t] = new,
           \A i \in Id : i # t => reports'[i] = reports[i],
           new = NoRow \/ /\ reports[t] # NoRow /\ DOMAIN new = {"id", "active", "by"}
                          /\ new.id = t /\ new.active \in BOOLEAN /\ DOMAIN new.by = Field,
           new # NoRow => /\ Hidden(t) => ~new.active
                          /\ \A f \in Field : reports[t].by[f] # Nobody => new.by[f] # Nobody
                          /\ Route(r) = "removeReport" => ~new.active
                          /\ Route(r) = "updateReport" =>
                                \A f \in req[r].call.patch \cap Field : new.by[f] # Nobody
    PROVE  CoreInv' /\ Flows /\ ReportInv' /\ \A q \in Request : q # r => req'[q] = req[q]
  <1>1. Shape /\ Route(r) \notin Mounted \cup Listing
    BY DEF CoreInv, Mounted, Listing
  <1>2. CoreInv' /\ Flows
    BY <1>1, WroteCore
  <1>3. Becomes(r, "reply", row, req[r].answer, req[r].after)
    BY <1>1, WroteMoves
  <1>4. ReportRequestInv(r) /\ ReportRowInv(t)
    BY DEF ReportInv
  <1>5. Minted(t) /\ Minted(t)'
    BY <1>2, <1>4, MintedStays DEF ReportRequestInv
  <1>6. ASSUME NEW i \in Id PROVE ReportRowInv(i)'
    <2>1. CASE i = t
      BY <1>5, <2>1 DEF ReportInv, ReportRowInv
    <2>2. CASE i # t
      BY <1>2, <2>2, MintedStays DEF ReportInv, ReportRowInv
    <2>3. QED
      BY <2>1, <2>2
  <1>7. ReportsFollow
    <2>1. ASSUME NEW i \in Id, i # t
          PROVE  /\ Hidden(i) => Hidden(i)'
                 /\ \A fields \in SUBSET Field : PatchedBy(i, fields) => PatchedBy(i, fields)'
      BY <2>1 DEF ReportInv, Hidden, PatchedBy
    <2>2. /\ Hidden(t) => Hidden(t)'
          /\ \A fields \in SUBSET Field : PatchedBy(t, fields) => PatchedBy(t, fields)'
      BY DEF ReportInv, Hidden, PatchedBy
    <2>3. QED
      BY <2>1, <2>2 DEF ReportsFollow
  <1>8. ReportRequestInv(r)'
    <2>1. /\ Route(r)' = Route(r) /\ Target(r)' = t /\ req'[r].call.patch = req[r].call.patch
          /\ req'[r].pc = "reply"
      BY <1>1, <1>2, <1>3, Kept DEF Flows, Flow, Becomes
    <2>3. CASE Route(r) = "removeReport"
      BY <1>5, <2>1, <2>3 DEF ReportRequestInv, Minted, Hidden
    <2>4. CASE Route(r) = "updateReport"
      BY <1>5, <2>1, <2>4 DEF ReportRequestInv, Minted, PatchedBy
    <2>5. QED
      BY <2>3, <2>4
  <1>9. QED
    BY <1>1, <1>2, <1>3, <1>6, <1>7, <1>8, ReportsActed, OthersStay DEF ReportInv

\* A patch, whatever has happened to the row since it was found.
LEMMA UpdateReportKeeps ==
    ASSUME CoreInv, ReportInv, NEW r \in Request, UpdateReport(r)
    PROVE  CoreInv' /\ Flows /\ ReportInv' /\ \A q \in Request : q # r => req'[q] = req[q]
  <1>0. Shape /\ Route(r) = "updateReport" /\ req[r].pc = "found"
    BY DEF CoreInv, UpdateReport, At
  <1>1. PICK t \in Id : t = Target(r)
    BY <1>0, ReportTarget
  <1>2. CASE reports[t] = NoRow
    <2>1. Throw(r, Domain("BUG_REPORT_NOT_FOUND")) /\ UNCHANGED reports
      BY <1>1, <1>2 DEF UpdateReport
    <2>2. Domain("BUG_REPORT_NOT_FOUND") \in Exceptions
      BY DEF Exceptions
    <2>3. /\ CoreInv' /\ Flows
          /\ req'[r].pc = "answered" /\ ~Done(r)'
          /\ \A q \in Request : q # r => req'[q] = req[q]
      BY <1>0, <2>1, <2>2, ThrowEnds
    <2>4. ReportRequestInv(r)'
      BY <2>3 DEF ReportRequestInv
    <2>5. QED
      BY <1>0, <2>1, <2>3, <2>4, ReportsStand, ReportsActed
  <1>3. CASE reports[t] # NoRow
    <2> DEFINE new == Patched(r)
    <2>1. /\ Wrote(r, new, {Caller(r)}) /\ DOMAIN reports' = Id /\ reports'[t] = new
          /\ \A i \in Id : i # t => reports'[i] = reports[i]
      BY <1>1, <1>3 DEF UpdateReport, ReportInv
    <2>2. ReportRowInv(t)
      BY DEF ReportInv
    <2>3. /\ DOMAIN new = {"id", "active", "by"} /\ new.id = t /\ new.active = reports[t].active
          /\ new.by = [f \in Field |-> IF f \in req[r].call.patch THEN r ELSE reports[t].by[f]]
      BY <1>1, <1>3, <2>2 DEF ReportRowInv, Patched
    <2>4. Own(r, new) /\ Names(r, new)
      BY <1>0, <1>1, <2>3, Audited DEF Own, Names
    <2>5. r # Nobody
      BY IdAssumption
    <2>6. /\ new.active \in BOOLEAN /\ DOMAIN new.by = Field
          /\ Hidden(t) => ~new.active
          /\ \A f \in Field : reports[t].by[f] # Nobody => new.by[f] # Nobody
          /\ \A f \in req[r].call.patch \cap Field : new.by[f] # Nobody
      BY <1>3, <2>2, <2>3, <2>5 DEF ReportRowInv, Hidden
    <2> HIDE DEF new
    <2>7. /\ new = NoRow \/ /\ reports[t] # NoRow /\ DOMAIN new = {"id", "active", "by"}
                             /\ new.id = t /\ new.active \in BOOLEAN /\ DOMAIN new.by = Field
          /\ new # NoRow => /\ Hidden(t) => ~new.active
                            /\ \A f \in Field : reports[t].by[f] # Nobody => new.by[f] # Nobody
                            /\ Route(r) = "removeReport" => ~new.active
                            /\ Route(r) = "updateReport" =>
                                  \A f \in req[r].call.patch \cap Field : new.by[f] # Nobody
      BY <1>0, <1>3, <2>3, <2>6
    <2>8. QED
      BY <1>0, <1>1, <2>1, <2>4, <2>7, ReportWritten
  <1>4. QED
    BY <1>2, <1>3

\* A removal that hides, of a row that is hidden already or not.
LEMMA HideReportKeeps ==
    ASSUME CoreInv, ReportInv, NEW r \in Request, HideReport(r)
    PROVE  CoreInv' /\ Flows /\ ReportInv' /\ \A q \in Request : q # r => req'[q] = req[q]
  <1>0. /\ Shape /\ Route(r) = "removeReport" /\ req[r].pc = "found" /\ HeldInv(r)
        /\ ReportRequestInv(r)
    BY DEF CoreInv, ReportInv, HideReport, At
  <1>1. PICK t \in Id : t = Target(r)
    BY <1>0, ReportTarget
  <1>2. Own(r, req[r].row) /\ Names(r, req[r].row)
    BY <1>0 DEF HeldInv
  <1>3. CASE ~req[r].row.active
    <2>1. Return(r, req[r].row) /\ UNCHANGED reports
      BY <1>3 DEF HideReport
    <2>2. CoreInv' /\ Flows
      BY <1>0, <1>2, <2>1, ReturnCore DEF Answered
    <2>3. Becomes(r, "answered", NoRow, Success(req[r].row), req[r].after)
      BY <1>0, <2>1, ReturnMoves
    <2>4. Route(r)' = Route(r) /\ Target(r)' = t /\ req'[r].pc = "answered"
      BY <1>0, <1>1, <2>2, <2>3, Kept DEF Becomes
    <2>5. Minted(t)' /\ Hidden(t)'
      BY <1>0, <1>1, <1>3, <2>1, <2>2, MintedStays DEF ReportRequestInv, Hidden
    <2>6. ReportRequestInv(r)'
      BY <1>0, <2>4, <2>5 DEF ReportRequestInv, Minted, Hidden
    <2>7. QED
      BY <1>0, <2>1, <2>2, <2>3, <2>6, ReportsStand, ReportsActed, OthersStay
  <1>4. CASE req[r].row.active
    <2> DEFINE new == IF reports[t] = NoRow THEN NoRow ELSE [reports[t] EXCEPT !.active = FALSE]
    <2>1. /\ Wrote(r, req[r].row, {Caller(r)}) /\ DOMAIN reports' = Id /\ reports'[t] = new
          /\ \A i \in Id : i # t => reports'[i] = reports[i]
      BY <1>1, <1>4 DEF HideReport, ReportInv
    <2>2. ReportRowInv(t)
      BY DEF ReportInv
    <2>3. new # NoRow => /\ reports[t] # NoRow /\ DOMAIN new = {"id", "active", "by"} /\ new.id = t
                         /\ new.active = FALSE /\ new.by = reports[t].by /\ DOMAIN new.by = Field
      BY <2>2 DEF ReportRowInv
    <2> HIDE DEF new
    <2>4. /\ new = NoRow \/ /\ reports[t] # NoRow /\ DOMAIN new = {"id", "active", "by"}
                             /\ new.id = t /\ new.active \in BOOLEAN /\ DOMAIN new.by = Field
          /\ new # NoRow => /\ Hidden(t) => ~new.active
                            /\ \A f \in Field : reports[t].by[f] # Nobody => new.by[f] # Nobody
                            /\ Route(r) = "removeReport" => ~new.active
                            /\ Route(r) = "updateReport" =>
                                  \A f \in req[r].call.patch \cap Field : new.by[f] # Nobody
      BY <1>0, <2>3
    <2>5. QED
      BY <1>0, <1>1, <1>2, <2>1, <2>4, ReportWritten
  <1>5. QED
    BY <1>3, <1>4

\* A removal that deletes.
LEMMA DeleteReportKeeps ==
    ASSUME CoreInv, ReportInv, NEW r \in Request, DeleteReport(r)
    PROVE  CoreInv' /\ Flows /\ ReportInv' /\ \A q \in Request : q # r => req'[q] = req[q]
  <1>0. Shape /\ Route(r) = "removeReport" /\ req[r].pc = "found" /\ HeldInv(r)
    BY DEF CoreInv, DeleteReport, At
  <1>1. PICK t \in Id : t = Target(r)
    BY <1>0, ReportTarget
  <1>2. Own(r, req[r].row) /\ Names(r, req[r].row)
    BY <1>0 DEF HeldInv
  <1>3. /\ Wrote(r, req[r].row, {Caller(r)}) /\ DOMAIN reports' = Id /\ reports'[t] = NoRow
        /\ \A i \in Id : i # t => reports'[i] = reports[i]
    BY <1>1 DEF DeleteReport, ReportInv
  <1>4. QED
    BY <1>0, <1>1, <1>2, <1>3, ReportWritten

\* Every step of the routes.
LEMMA ReportStepKeeps ==
    ASSUME CoreInv, ReportInv, NEW r \in Request, ReportStep(r)
    PROVE  /\ CoreInv' /\ Flows /\ ReportInv' /\ Route(r) \in ReportRoutes
           /\ \A q \in Request : q # r => req'[q] = req[q]
  <1>1. Route(r) \in ReportRoutes
    BY DEF ReportStep, CreateReport, ListReports, FindReport, AddAttachments, UpdateReport,
           HideReport, DeleteReport, At, ReportRoutes
  <1>2. QED
    BY <1>1, CreateReportKeeps, ListReportsKeeps, FindReportKeeps, AddAttachmentsKeeps,
       UpdateReportKeeps, HideReportKeeps, DeleteReportKeeps DEF ReportStep

-----------------------------------------------------------------------------
(* Todos. *)

\* A call that names a todo names one there may be.
LEMMA TodoTarget ==
    ASSUME Shape, NEW r \in Request, Route(r) \in {"findTodo", "updateTodo", "removeTodo"}
    PROVE  Target(r) \in Id
  BY TodoIds DEF Shape, Calls, Route, Target

\* The owner of an id does not change.
LEMMA OwnerStays ==
    ASSUME Shape, Flows, NEW i \in Id
    PROVE  OwnerOf(i)' = OwnerOf(i)
  BY Kept DEF OwnerOf, Id

TodosFollow == \A i \in Id : Minted(i) /\ todos[i] = NoRow => todos'[i] = NoRow

\* What the feature promises a request outlives the steps of others.
LEMMA TodoRequestKept ==
    ASSUME CoreInv, Flows, TodosFollow, NEW q \in Request, TodoRequestInv(q),
           Route(q) \in TodoRoutes => Passed(q)
    PROVE  TodoRequestInv(q)'
  <1>1. /\ Shape /\ StepInv(q)
        /\ Route(q)' = Route(q) /\ Target(q)' = Target(q) /\ Caller(q)' = Caller(q)
    BY Kept DEF CoreInv
  <1>2. CASE Route(q) = "removeTodo"
    <2>1. PICK t \in Id : t = Target(q) /\ t = Target(q)'
      BY <1>1, <1>2, TodoTarget
    <2>2. /\ Minted(t) => Minted(t)' /\ (todos[t] = NoRow => todos'[t] = NoRow)
          /\ OwnerOf(t)' = OwnerOf(t)
      BY <1>1, MintedStays, OwnerStays DEF TodosFollow
    <2>3. Passed(q)
      BY <1>2 DEF TodoRoutes
    <2>4. Done(q)' => Done(q) \/ req[q].pc = "reply"
      BY <2>3 DEF Passed, Done, Answered
    <2>5. req'[q].pc \in {"found", "reply"} => req'[q] = req[q]
      BY <2>3 DEF Passed
    <2>6. TodoRequestInv(q)' <=>
              /\ req'[q].pc = "found" => Minted(t)' /\ OwnerOf(t)' = Caller(q)
              /\ req'[q].pc = "reply" \/ Done(q)' => Minted(t)' /\ todos'[t] = NoRow
      BY <1>1, <1>2, <2>1 DEF TodoRequestInv, Minted, OwnerOf
    <2>7. QED
      BY <1>2, <2>1, <2>2, <2>4, <2>5, <2>6, DoneStays DEF TodoRequestInv
  <1>3. CASE Route(q) = "listTodos"
    <2>1. Passed(q)
      BY <1>3 DEF TodoRoutes
    <2>2. Done(q)' => Done(q)
      BY <1>1, <1>3, <2>1 DEF Passed, Done, Answered, StepInv, Listing
    <2>3. Done(q)' => req'[q] = req[q]
      BY <2>2, DoneStays
    <2>4. \A i \in Id : OwnerOf(i)' = OwnerOf(i)
      BY <1>1, OwnerStays
    <2>5. ASSUME Done(q)', NEW i \in req'[q].answer.data.ids
          PROVE  i \in Id /\ OwnerOf(i)' = Caller(q)
      BY <1>3, <2>2, <2>3, <2>4, <2>5 DEF TodoRequestInv
    <2>6. QED
      BY <1>1, <1>3, <2>5 DEF TodoRequestInv, OwnerOf
  <1>4. QED
    BY <1>1, <1>2, <1>3 DEF TodoRequestInv

\* A step that leaves the table alone brings no todo back.
LEMMA TodosStand ==
    ASSUME Shape, Flows, TodoInv, UNCHANGED todos
    PROVE  DOMAIN todos' = Id /\ (\A i \in Id : TodoRowInv(i)') /\ TodosFollow
  <1>1. ASSUME NEW i \in Id PROVE TodoRowInv(i)'
    BY MintedStays, OwnerStays DEF TodoInv, TodoRowInv
  <1>2. QED
    BY <1>1 DEF TodoInv, TodosFollow

\* The steps of other features and of the pipeline keep this one's invariant.
LEMMA TodosElsewhere ==
    ASSUME CoreInv, Flows, TodoInv, UNCHANGED todos,
           \A q \in Request : Route(q) \in TodoRoutes => Passed(q)
    PROVE  TodoInv'
  BY TodosStand, TodoRequestKept DEF CoreInv, TodoInv

\* A step of a route, once its own request and the table are seen to.
LEMMA TodosActed ==
    ASSUME CoreInv, Flows, TodoInv, NEW r \in Request,
           \A q \in Request : q # r => req'[q] = req[q],
           DOMAIN todos' = Id, \A i \in Id : TodoRowInv(i)', TodosFollow,
           TodoRequestInv(r)'
    PROVE  TodoInv'
  <1>1. \A q \in Request : q # r => Passed(q)
    BY DEF Passed
  <1>2. \A q \in Request : q # r => TodoRequestInv(q)'
    BY <1>1, TodoRequestKept DEF TodoInv
  <1>3. QED
    BY <1>2 DEF TodoInv

\* What is selected is the caller's.
LEMMA SelectedOwn ==
    ASSUME TodoInv, NEW i \in Id, NEW user, Selects(i, user)
    PROVE  /\ todos[i] # NoRow /\ DOMAIN todos[i] = {"id", "user", "by"} /\ todos[i].id = i
           /\ todos[i].user = user /\ OwnerOf(i) = user /\ Minted(i)
  BY DEF TodoInv, TodoRowInv, Selects

\* A list shows the caller's rows.
LEMMA ListTodosKeeps ==
    ASSUME CoreInv, TodoInv, NEW r \in Request, ListTodos(r)
    PROVE  CoreInv' /\ Flows /\ TodoInv' /\ \A q \in Request : q # r => req'[q] = req[q]
  <1> DEFINE row == [ids |-> {i \in Id : Selects(i, Caller(r))}]
  <1>1. /\ Shape /\ Route(r) = "listTodos" /\ req[r].pc = "handler" /\ UNCHANGED todos
        /\ Return(r, row)
    BY DEF CoreInv, ListTodos, At
  <1>2. Own(r, row) /\ Names(r, row)
    BY <1>1, UnauditedNames DEF Own
  <1>3. CoreInv' /\ Flows
    BY <1>1, <1>2, ReturnCore DEF Answered
  <1>4. Becomes(r, "answered", NoRow, Success(row), req[r].after)
    BY <1>1, ReturnMoves
  <1>5. req'[r].answer.data.ids = {i \in Id : Selects(i, Caller(r))}
    BY <1>4 DEF Becomes, Success
  <1>6. Route(r)' = Route(r) /\ Caller(r)' = Caller(r) /\ \A i \in Id : OwnerOf(i)' = OwnerOf(i)
    BY <1>1, <1>3, Kept, OwnerStays
  <1>7. ASSUME NEW i \in req'[r].answer.data.ids
        PROVE  i \in Id /\ OwnerOf(i)' = Caller(r)
    BY <1>5, <1>6, SelectedOwn
  <1>8. TodoRequestInv(r)'
    BY <1>1, <1>6, <1>7 DEF TodoRequestInv, OwnerOf
  <1>9. QED
    BY <1>1, <1>3, <1>4, <1>8, TodosStand, TodosActed, OthersStay

\* What is found is the caller's, or there is a 404.
LEMMA FindTodoKeeps ==
    ASSUME CoreInv, TodoInv, NEW r \in Request, FindTodo(r)
    PROVE  CoreInv' /\ Flows /\ TodoInv' /\ \A q \in Request : q # r => req'[q] = req[q]
  <1>0. /\ Shape /\ Route(r) \in {"findTodo", "removeTodo"}
        /\ req[r].pc = "handler" /\ UNCHANGED todos
    BY DEF CoreInv, FindTodo, At
  <1>1. PICK t \in Id : t = Target(r)
    BY <1>0, TodoTarget
  <1>2. CASE ~Selects(t, Caller(r))
    <2>1. Throw(r, Http(404))
      BY <1>1, <1>2 DEF FindTodo
    <2>2. Http(404) \in Exceptions
      BY DEF Exceptions
    <2>3. /\ CoreInv' /\ Flows
          /\ req'[r].pc = "answered" /\ ~Done(r)'
          /\ \A q \in Request : q # r => req'[q] = req[q]
      BY <1>0, <2>1, <2>2, ThrowEnds
    <2>4. TodoRequestInv(r)'
      BY <2>3 DEF TodoRequestInv
    <2>5. QED
      BY <1>0, <2>3, <2>4, TodosStand, TodosActed
  <1>3. CASE Selects(t, Caller(r))
    <2>1. /\ todos[t].user = Caller(r) /\ OwnerOf(t) = Caller(r) /\ Minted(t)
      BY <1>3, SelectedOwn
    <2>2. Own(r, todos[t]) /\ Names(r, todos[t])
      BY <1>0, <2>1, UnauditedNames DEF Own
    <2>3. CASE Route(r) = "findTodo"
      <3>1. Return(r, todos[t])
        BY <1>1, <1>3, <2>3 DEF FindTodo
      <3>2. CoreInv' /\ Flows
        BY <1>0, <2>2, <3>1, ReturnCore DEF Answered
      <3>3. \A q \in Request : q # r => req'[q] = req[q]
        BY <1>0, <3>1, ReturnMoves, OthersStay
      <3>4. TodoRequestInv(r)'
        BY <1>0, <2>3, <3>2, Kept DEF TodoRequestInv
      <3>5. QED
        BY <1>0, <3>2, <3>3, <3>4, TodosStand, TodosActed
    <2>4. CASE Route(r) = "removeTodo"
      <3>1. Goto(r, "found", todos[t])
        BY <1>1, <1>3, <2>4 DEF FindTodo
      <3>2. CoreInv' /\ Flows
        BY <1>0, <2>2, <3>1, GotoCore DEF Mounted
      <3>3. Becomes(r, "found", todos[t], req[r].answer, req[r].after)
        BY <1>0, <3>1, GotoMoves
      <3>4. /\ Route(r)' = Route(r) /\ Target(r)' = t /\ Caller(r)' = Caller(r)
            /\ Minted(t)' /\ OwnerOf(t)' = OwnerOf(t)
        BY <1>0, <1>1, <2>1, <3>2, Kept, MintedStays, OwnerStays
      <3>5. req'[r].pc = "found" /\ ~Done(r)'
        BY <3>3 DEF Becomes, Done, Answered
      <3>6. TodoRequestInv(r)'
        BY <2>1, <2>4, <3>4, <3>5 DEF TodoRequestInv, Minted, OwnerOf
      <3>7. QED
        BY <1>0, <3>2, <3>3, <3>6, TodosStand, TodosActed, OthersStay
    <2>5. QED
      BY <1>0, <2>3, <2>4
  <1>4. QED
    BY <1>2, <1>3


\* A new row has an id that had none.
LEMMA CreateTodoKeeps ==
    ASSUME CoreInv, TodoInv, NEW r \in Request, CreateTodo(r)
    PROVE  CoreInv' /\ Flows /\ TodoInv' /\ \A q \in Request : q # r => req'[q] = req[q]
  <1> DEFINE row == NewTodo(r, Caller(r))
  <1>0. /\ Shape /\ Route(r) = "createTodo" /\ req[r].pc = "handler" /\ r \in Id
        /\ DOMAIN todos' = Id /\ todos'[r] = row
        /\ \A i \in Id : i # r => todos'[i] = todos[i]
    BY DEF CoreInv, CreateTodo, At, Id, TodoInv
  <1>1. Wrote(r, row, {Caller(r)})
    BY <1>0 DEF CreateTodo
  <1>2. DOMAIN row = {"id", "user", "by"} /\ row.id = r /\ row.user = Caller(r)
    BY DEF NewTodo
  <1>3. Own(r, row) /\ Names(r, row)
    BY <1>0, <1>2, Audited DEF Own, Names
  <1>4. CoreInv' /\ Flows
    BY <1>0, <1>1, <1>3, WroteCore DEF Mounted, Listing
  <1>5. Becomes(r, "reply", row, req[r].answer, req[r].after)
    BY <1>0, <1>1, WroteMoves
  <1>6. Route(r)' = Route(r) /\ Caller(r)' = Caller(r)
    BY <1>0, <1>4, Kept
  <1>7. ASSUME NEW i \in Id PROVE TodoRowInv(i)'
    <2>1. CASE i = r
      <3>1. OwnerOf(i)' = Caller(r) /\ Minted(i)'
        BY <1>5, <1>6, <2>1, IdAssumption DEF OwnerOf, Minted, Becomes
      <3>2. QED
        BY <1>0, <1>2, <2>1, <3>1 DEF TodoRowInv
    <2>2. CASE i # r
      BY <1>0, <1>4, <2>2, MintedStays, OwnerStays DEF TodoInv, TodoRowInv
    <2>3. QED
      BY <2>1, <2>2
  <1>8. TodosFollow
    BY <1>0, IdAssumption DEF Minted, TodosFollow
  <1>9. TodoRequestInv(r)'
    BY <1>0, <1>6 DEF TodoRequestInv
  <1>10. QED
    BY <1>0, <1>4, <1>5, <1>7, <1>8, <1>9, TodosActed, OthersStay

\* The statement of a patch or of a removal, on a row of the caller's.
LEMMA TodoWritten ==
    ASSUME CoreInv, TodoInv, NEW r \in Request, NEW t \in Id, t = Target(r),
           Route(r) \in {"updateTodo", "removeTodo"},
           req[r].pc \in {"handler", "found"},
           NEW row, NEW owners, Wrote(r, row, owners), owners \subseteq {Caller(r)}, Own(r, row),
           Selects(t, Caller(r)),
           DOMAIN todos' = Id, \A i \in Id : i # t => todos'[i] = todos[i],
           todos'[t] # NoRow => /\ Route(r) = "updateTodo" /\ DOMAIN todos'[t] = DOMAIN todos[t]
                                /\ todos'[t].id = todos[t].id /\ todos'[t].user = todos[t].user
    PROVE  CoreInv' /\ Flows /\ TodoInv' /\ \A q \in Request : q # r => req'[q] = req[q]
  <1>1. Shape /\ Route(r) \notin Mounted \cup Listing /\ Names(r, row)
    BY UnauditedNames DEF CoreInv, Mounted, Listing
  <1>2. CoreInv' /\ Flows
    BY <1>1, WroteCore
  <1>3. Becomes(r, "reply", row, req[r].answer, req[r].after)
    BY <1>1, WroteMoves
  <1>4. /\ todos[t] # NoRow /\ DOMAIN todos[t] = {"id", "user", "by"} /\ todos[t].id = t
        /\ todos[t].user = OwnerOf(t) /\ Minted(t)
    BY SelectedOwn
  <1>5. \A i \in Id : OwnerOf(i)' = OwnerOf(i) /\ (Minted(i) => Minted(i)')
    BY <1>1, <1>2, MintedStays, OwnerStays
  <1>6. ASSUME NEW i \in Id PROVE TodoRowInv(i)'
    <2>1. CASE i = t
      BY <1>4, <1>5, <2>1 DEF TodoRowInv
    <2>2. CASE i # t
      BY <1>5, <2>2 DEF TodoInv, TodoRowInv
    <2>3. QED
      BY <2>1, <2>2
  <1>7. TodosFollow
    BY <1>4 DEF TodosFollow
  <1>8. /\ Route(r)' = Route(r) /\ Target(r)' = t /\ req'[r].pc = "reply"
    BY <1>1, <1>2, <1>3, Kept DEF Becomes
  <1>9. Minted(t)'
    BY <1>4, <1>5
  <1>10. TodoRequestInv(r)'
    BY <1>8, <1>9 DEF TodoRequestInv, Minted
  <1>11. QED
    BY <1>1, <1>2, <1>3, <1>6, <1>7, <1>10, TodosActed, OthersStay

\* A patch of a row of the caller's, or a 404.
LEMMA UpdateTodoKeeps ==
    ASSUME CoreInv, TodoInv, NEW r \in Request, UpdateTodo(r)
    PROVE  CoreInv' /\ Flows /\ TodoInv' /\ \A q \in Request : q # r => req'[q] = req[q]
  <1>0. Shape /\ Route(r) = "updateTodo" /\ req[r].pc = "handler"
    BY DEF CoreInv, UpdateTodo, At
  <1>1. PICK t \in Id : t = Target(r)
    BY <1>0, TodoTarget
  <1>2. CASE ~Selects(t, Caller(r))
    <2>1. Throw(r, Http(404)) /\ UNCHANGED todos
      BY <1>1, <1>2 DEF UpdateTodo
    <2>2. Http(404) \in Exceptions
      BY DEF Exceptions
    <2>3. /\ CoreInv' /\ Flows
          /\ req'[r].pc = "answered" /\ ~Done(r)'
          /\ \A q \in Request : q # r => req'[q] = req[q]
      BY <1>0, <2>1, <2>2, ThrowEnds
    <2>4. TodoRequestInv(r)'
      BY <2>3 DEF TodoRequestInv
    <2>5. QED
      BY <1>0, <2>1, <2>3, <2>4, TodosStand, TodosActed
  <1>3. CASE Selects(t, Caller(r))
    <2>1. /\ todos' = [todos EXCEPT ![t].by = r]
          /\ Wrote(r, todos'[t], {todos[t].user})
      BY <1>1, <1>3 DEF UpdateTodo
    <2>2. DOMAIN todos[t] = {"id", "user", "by"} /\ todos[t].user = Caller(r)
      BY <1>3, SelectedOwn
    <2>3. /\ DOMAIN todos' = Id /\ \A i \in Id : i # t => todos'[i] = todos[i]
          /\ DOMAIN todos'[t] = DOMAIN todos[t]
          /\ todos'[t].id = todos[t].id /\ todos'[t].user = todos[t].user
      BY <2>1, <2>2 DEF TodoInv
    <2>4. Own(r, todos'[t]) /\ {todos[t].user} \subseteq {Caller(r)}
      BY <2>2, <2>3 DEF Own
    <2>5. PICK row : row = todos'[t]
      OBVIOUS
    <2>6. Wrote(r, row, {todos[t].user}) /\ Own(r, row)
      BY <2>1, <2>4, <2>5
    <2>7. QED
      BY <1>0, <1>1, <1>3, <2>3, <2>4, <2>6, TodoWritten
  <1>4. QED
    BY <1>2, <1>3

\* A removal; a row that is gone by now stays gone.
LEMMA DeleteTodoKeeps ==
    ASSUME CoreInv, TodoInv, NEW r \in Request, DeleteTodo(r)
    PROVE  CoreInv' /\ Flows /\ TodoInv' /\ \A q \in Request : q # r => req'[q] = req[q]
  <1>0. Shape /\ Route(r) = "removeTodo" /\ req[r].pc = "found" /\ TodoRequestInv(r)
    BY DEF CoreInv, DeleteTodo, At, TodoInv
  <1>1. PICK t \in Id : t = Target(r)
    BY <1>0, TodoTarget
  <1>2. Minted(t) /\ OwnerOf(t) = Caller(r)
    BY <1>0, <1>1 DEF TodoRequestInv
  <1>3. Own(r, NoRow) /\ Names(r, NoRow)
    BY <1>0, NoRowHeld, UnauditedNames
  <1>4. CASE ~Selects(t, Caller(r))
    <2>1. Return(r, NoRow) /\ UNCHANGED todos
      BY <1>1, <1>4 DEF DeleteTodo
    <2>2. CoreInv' /\ Flows
      BY <1>0, <1>3, <2>1, ReturnCore DEF Answered
    <2>3. Becomes(r, "answered", NoRow, Success(NoRow), req[r].after)
      BY <1>0, <2>1, ReturnMoves
    <2>4. todos[t] = NoRow
      BY <1>2, <1>4 DEF TodoInv, TodoRowInv, Selects
    <2>5. Route(r)' = Route(r) /\ Target(r)' = t /\ Minted(t)' /\ req'[r].pc = "answered"
      BY <1>0, <1>1, <1>2, <2>2, <2>3, Kept, MintedStays DEF Becomes
    <2>6. TodoRequestInv(r)'
      BY <1>0, <2>1, <2>4, <2>5 DEF TodoRequestInv, Minted
    <2>7. QED
      BY <1>0, <2>1, <2>2, <2>3, <2>6, TodosStand, TodosActed, OthersStay
  <1>5. CASE Selects(t, Caller(r))
    <2>1. /\ Wrote(r, NoRow, {Caller(r)}) /\ DOMAIN todos' = Id /\ todos'[t] = NoRow
          /\ \A i \in Id : i # t => todos'[i] = todos[i]
      BY <1>1, <1>5 DEF DeleteTodo, TodoInv
    <2>2. {Caller(r)} \subseteq {Caller(r)} /\ req[r].pc \in {"handler", "found"}
      BY <1>0
    <2>3. QED
      BY <1>0, <1>1, <1>3, <1>5, <2>1, <2>2, TodoWritten
  <1>6. QED
    BY <1>4, <1>5

\* Every step of the routes.
LEMMA TodoStepKeeps ==
    ASSUME CoreInv, TodoInv, NEW r \in Request, TodoStep(r)
    PROVE  /\ CoreInv' /\ Flows /\ TodoInv' /\ Route(r) \in TodoRoutes
           /\ \A q \in Request : q # r => req'[q] = req[q]
  <1>1. Route(r) \in TodoRoutes
    BY DEF TodoStep, ListTodos, FindTodo, CreateTodo, UpdateTodo, DeleteTodo, At, TodoRoutes
  <1>2. QED
    BY <1>1, ListTodosKeeps, FindTodoKeeps, CreateTodoKeeps, UpdateTodoKeeps, DeleteTodoKeeps
    DEF TodoStep


-----------------------------------------------------------------------------
(* The inbox. *)

\* A call that names a notification names one there may be.
LEMMA NoteTarget ==
    ASSUME Shape, NEW r \in Request, Route(r) = "markRead"
    PROVE  Target(r) \in Id
  BY NoteIds DEF Shape, Calls, Route, Target

\* A row stays, with its owner, read once it is read and settled once it is settled.
NotesFollow ==
    /\ early \subseteq early'
    /\ \A i \in Id : notes[i] # NoRow =>
        /\ notes'[i] # NoRow /\ notes'[i].user = notes[i].user
        /\ notes[i].read # Nobody => notes'[i].read # Nobody
        /\ notes[i].push # "pending" => notes'[i].push # "pending"

\* What the feature promises a request outlives the steps of others.
LEMMA NoteRequestKept ==
    ASSUME CoreInv, Flows, NoteInv, NotesFollow, NEW q \in Request,
           Route(q) \in NoteRoutes => Passed(q)
    PROVE  NoteRequestInv(q)'
  <1>1. /\ Shape /\ StepInv(q) /\ NoteRequestInv(q)
        /\ Route(q)' = Route(q) /\ Target(q)' = Target(q) /\ Caller(q)' = Caller(q)
    BY Kept DEF CoreInv, NoteInv
  <1>2. CASE Route(q) = "notify"
    <2>1. Passed(q) /\ q \in Id
      BY <1>2 DEF NoteRoutes, Id
    <2>2. Done(q)' => Done(q) \/ req[q].pc = "reply"
      BY <2>1 DEF Passed, Done, Answered
    <2>3. req'[q].pc \in {"push", "sent", "skipped", "failed", "reply"} => req'[q] = req[q]
      BY <2>1 DEF Passed
    <2>4. QED
      BY <1>1, <1>2, <2>1, <2>2, <2>3 DEF NoteRequestInv, NotesFollow
  <1>3. CASE Route(q) = "markRead"
    <2>1. PICK t \in Id : t = Target(q) /\ t = Target(q)'
      BY <1>1, <1>3, NoteTarget
    <2>2. Passed(q)
      BY <1>3 DEF NoteRoutes
    <2>3. /\ notes[t] # NoRow => notes'[t] # NoRow
          /\ Read(t) => Read(t)'
          /\ Foreign(q, t) => Foreign(q, t)'
          /\ q \in early => q \in early'
      BY <1>1 DEF NotesFollow, Read, Foreign
    <2>4. Done(q)' => Done(q) \/ req[q].pc = "reply"
      BY <2>2 DEF Passed, Done, Answered
    <2>5. req'[q].pc \in {"found", "reply"} => req'[q] = req[q]
      BY <2>2 DEF Passed
    <2>6. NoteRequestInv(q)' <=>
              /\ req'[q].pc = "found" => q \in early' \/ Foreign(q, t)' \/ Read(t)'
              /\ req'[q].pc = "reply" => Read(t)'
              /\ Done(q)' => notes'[t] # NoRow /\ (q \in early' \/ Read(t)')
      BY <1>1, <1>3, <2>1 DEF NoteRequestInv, Read, Foreign, Route
    <2>7. /\ req[q].pc = "found" => q \in early \/ Foreign(q, t) \/ Read(t)
          /\ req[q].pc = "reply" => Read(t)
          /\ Done(q) => notes[t] # NoRow /\ (q \in early \/ Read(t))
      BY <1>1, <1>3, <2>1 DEF NoteRequestInv
    <2>8. Read(t) => notes[t] # NoRow
      BY DEF Read
    <2>9. req'[q].pc = "found" => q \in early' \/ Foreign(q, t)' \/ Read(t)'
      BY <2>3, <2>5, <2>7
    <2>10. req'[q].pc = "reply" => Read(t)'
      BY <2>3, <2>5, <2>7
    <2>11. Done(q)' => notes'[t] # NoRow /\ (q \in early' \/ Read(t)')
      BY <2>3, <2>4, <2>7, <2>8
    <2>12. QED
      BY <2>6, <2>9, <2>10, <2>11
  <1>4. CASE Route(q) \in {"listNotes", "unreadCount"}
    <2>1. Passed(q)
      BY <1>4 DEF NoteRoutes
    <2>2. Done(q)' => Done(q)
      BY <1>1, <1>4, <2>1 DEF Passed, Done, Answered, StepInv, Listing
    <2>3. Done(q)' => req'[q] = req[q]
      BY <2>2, DoneStays
    <2>4. \A i \in Id : OwnerOf(i)' = OwnerOf(i)
      BY <1>1, OwnerStays
    <2>5. ASSUME Done(q)', NEW i \in req'[q].answer.data.ids
          PROVE  i \in Id /\ notes'[i] # NoRow /\ OwnerOf(i)' = Caller(q)
      BY <1>1, <1>4, <2>2, <2>3, <2>4, <2>5 DEF NoteRequestInv, NotesFollow
    <2>6. QED
      BY <1>1, <1>4, <2>5 DEF NoteRequestInv, OwnerOf
  <1>5. QED
    BY <1>1, <1>2, <1>3, <1>4 DEF NoteRequestInv

\* A step that leaves the table alone takes nothing back.
LEMMA NotesStand ==
    ASSUME Shape, Flows, NoteInv, UNCHANGED noteVars
    PROVE  DOMAIN notes' = Id /\ (\A i \in Id : NoteRowInv(i)') /\ NotesFollow
  <1>1. ASSUME NEW i \in Id PROVE NoteRowInv(i)'
    BY MintedStays, OwnerStays DEF NoteInv, NoteRowInv, noteVars
  <1>2. QED
    BY <1>1 DEF NoteInv, NotesFollow, noteVars

\* The steps of other features and of the pipeline keep this one's invariant.
LEMMA NotesElsewhere ==
    ASSUME CoreInv, Flows, NoteInv, UNCHANGED noteVars,
           \A q \in Request : Route(q) \in NoteRoutes => Passed(q)
    PROVE  NoteInv'
  <1>1. Shape
    BY DEF CoreInv
  <1>2. DOMAIN notes' = Id /\ (\A i \in Id : NoteRowInv(i)') /\ NotesFollow
    BY <1>1, NotesStand
  <1>3. \A q \in Request : NoteRequestInv(q)'
    BY <1>2, NoteRequestKept
  <1>4. QED
    BY <1>2, <1>3 DEF NoteInv

\* A step of a route, once its own request and the table are seen to.
LEMMA NotesActed ==
    ASSUME CoreInv, Flows, NoteInv, NEW r \in Request,
           \A q \in Request : q # r => req'[q] = req[q],
           DOMAIN notes' = Id, \A i \in Id : NoteRowInv(i)', NotesFollow,
           NoteRequestInv(r)'
    PROVE  NoteInv'
  <1>1. \A q \in Request : q # r => Passed(q)
    BY DEF Passed
  <1>2. \A q \in Request : q # r => NoteRequestInv(q)'
    BY <1>1, NoteRequestKept
  <1>3. QED
    BY <1>2 DEF NoteInv

\* A page shows the caller's rows.
LEMMA ListNotesKeeps ==
    ASSUME CoreInv, NoteInv, NEW r \in Request, ListNotes(r)
    PROVE  CoreInv' /\ Flows /\ NoteInv' /\ \A q \in Request : q # r => req'[q] = req[q]
  <1> DEFINE row == [ids |-> {i \in Id : Mine(r, i) /\ (UnreadOnly(r) => Unread(r, i))}]
  <1>1. /\ Shape /\ Route(r) \in {"listNotes", "unreadCount"} /\ req[r].pc = "handler"
        /\ UNCHANGED noteVars /\ Return(r, row)
    BY DEF CoreInv, ListNotes, At
  <1>2. Own(r, row) /\ Names(r, row)
    BY <1>1, UnauditedNames DEF Own
  <1>3. CoreInv' /\ Flows
    BY <1>1, <1>2, ReturnCore DEF Answered
  <1>4. Becomes(r, "answered", NoRow, Success(row), req[r].after)
    BY <1>1, ReturnMoves
  <1>5. \A i \in req'[r].answer.data.ids : i \in Id /\ Mine(r, i)
    BY <1>4 DEF Becomes, Success
  <1>6. Route(r)' = Route(r) /\ Caller(r)' = Caller(r) /\ \A i \in Id : OwnerOf(i)' = OwnerOf(i)
    BY <1>1, <1>3, Kept, OwnerStays
  <1>7. ASSUME NEW i \in req'[r].answer.data.ids
        PROVE  i \in Id /\ notes'[i] # NoRow /\ OwnerOf(i)' = Caller(r)
    BY <1>1, <1>5, <1>6 DEF NoteInv, NoteRowInv, Mine, noteVars
  <1>8. NoteRequestInv(r)'
    BY <1>1, <1>6, <1>7 DEF NoteRequestInv, OwnerOf
  <1>9. QED
    BY <1>1, <1>3, <1>4, <1>8, NotesStand, NotesActed, OthersStay

\* The update of an unread row of the caller's, or why there was none.
LEMMA MarkReadKeeps ==
    ASSUME CoreInv, NoteInv, NEW r \in Request, MarkRead(r)
    PROVE  CoreInv' /\ Flows /\ NoteInv' /\ \A q \in Request : q # r => req'[q] = req[q]
  <1>0. Shape /\ Route(r) = "markRead" /\ req[r].pc = "handler" /\ early \subseteq early'
    BY DEF CoreInv, MarkRead, At
  <1>1. PICK t \in Id : t = Target(r) /\ NoteRowInv(t)
    BY <1>0, NoteTarget DEF MarkRead, NoteInv
  <1>2. Own(r, NoRow) /\ Names(r, NoRow)
    BY <1>0, NoRowHeld, UnauditedNames
  <1>3. CASE Unread(r, t)
    <2>1. /\ notes' = [notes EXCEPT ![t].read = r] /\ Wrote(r, NoRow, {Caller(r)})
          /\ notes[t] # NoRow
      BY <1>1, <1>3 DEF MarkRead, Unread, Mine
    <2>2. /\ DOMAIN notes' = Id /\ \A i \in Id : i # t => notes'[i] = notes[i]
          /\ DOMAIN notes'[t] = DOMAIN notes[t] /\ notes'[t].user = notes[t].user
          /\ notes'[t].push = notes[t].push /\ notes'[t].read = r /\ notes'[t] # NoRow
      BY <1>1, <2>1 DEF NoteInv, NoteRowInv, NoRow
    <2>3. CoreInv' /\ Flows
      BY <1>0, <1>2, <2>1, WroteCore DEF Mounted, Listing
    <2>4. Becomes(r, "reply", NoRow, req[r].answer, req[r].after)
      BY <1>0, <2>1, WroteMoves
    <2>5. ASSUME NEW i \in Id PROVE NoteRowInv(i)'
      <3>1. OwnerOf(i)' = OwnerOf(i) /\ (Minted(i) => Minted(i)')
        BY <1>0, <2>3, MintedStays, OwnerStays
      <3>2. CASE i = t
        BY <1>0, <1>1, <2>1, <2>2, <3>1, <3>2 DEF NoteRowInv
      <3>3. CASE i # t
        BY <1>0, <2>2, <3>1, <3>3 DEF NoteInv, NoteRowInv
      <3>4. QED
        BY <3>2, <3>3
    <2>6. r # Nobody
      BY IdAssumption
    <2>7. NotesFollow
      BY <1>0, <2>1, <2>2, <2>6 DEF NotesFollow
    <2>8. NoteRequestInv(r)'
      BY <1>0, <1>1, <2>2, <2>3, <2>4, <2>6, Kept DEF NoteRequestInv, Becomes, Read, Done, Answered
    <2>9. QED
      BY <2>2, <2>3, <2>4, <2>5, <2>7, <2>8, NotesActed, OthersStay
  <1>4. CASE ~Unread(r, t)
    <2>1. /\ Goto(r, "found", NoRow) /\ notes' = notes
          /\ notes[t] = NoRow => r \in early'
      BY <1>0, <1>1, <1>4 DEF MarkRead
    <2>2. CoreInv' /\ Flows
      BY <1>0, <1>2, <2>1, GotoCore DEF Mounted
    <2>3. Becomes(r, "found", NoRow, req[r].answer, req[r].after)
      BY <1>0, <2>1, GotoMoves
    <2>4. /\ Route(r)' = Route(r) /\ Target(r)' = t /\ Caller(r)' = Caller(r)
          /\ req'[r].pc = "found" /\ ~Done(r)'
      BY <1>0, <1>1, <2>2, <2>3, Kept DEF Becomes, Done, Answered
    <2>5. r \in early' \/ Foreign(r, t)' \/ Read(t)'
      BY <1>4, <2>1, <2>4 DEF Unread, Mine, Foreign, Read
    <2>6. NoteRequestInv(r)'
      BY <1>0, <1>1, <2>4, <2>5 DEF NoteRequestInv, Foreign, Read, Route
    <2>7. DOMAIN notes' = Id /\ (\A i \in Id : NoteRowInv(i)') /\ NotesFollow
      <3>1. \A i \in Id : NoteRowInv(i)'
        BY <1>0, <2>1, <2>2, MintedStays, OwnerStays DEF NoteInv, NoteRowInv
      <3>2. QED
        BY <1>0, <2>1, <3>1 DEF NoteInv, NotesFollow
    <2>8. QED
      BY <2>2, <2>3, <2>6, <2>7, NotesActed, OthersStay
  <1>5. QED
    BY <1>3, <1>4

\* A row of the caller's is read, unless the update came too early for it.
LEMMA ExistsForUserKeeps ==
    ASSUME CoreInv, NoteInv, NEW r \in Request, ExistsForUser(r)
    PROVE  CoreInv' /\ Flows /\ NoteInv' /\ \A q \in Request : q # r => req'[q] = req[q]
  <1>0. /\ Shape /\ Route(r) = "markRead" /\ req[r].pc = "found" /\ UNCHANGED noteVars
        /\ NoteRequestInv(r)
    BY DEF CoreInv, ExistsForUser, At, NoteInv
  <1>1. PICK t \in Id : t = Target(r)
    BY <1>0, NoteTarget
  <1>2. CASE Mine(r, t)
    <2>1. Return(r, NoRow)
      BY <1>1, <1>2 DEF ExistsForUser
    <2>2. Own(r, NoRow) /\ Names(r, NoRow)
      BY <1>0, NoRowHeld, UnauditedNames
    <2>3. CoreInv' /\ Flows
      BY <1>0, <2>1, <2>2, ReturnCore DEF Answered
    <2>4. Becomes(r, "answered", NoRow, Success(NoRow), req[r].after)
      BY <1>0, <2>1, ReturnMoves
    <2>5. notes[t] # NoRow /\ (r \in early \/ Read(t))
      BY <1>0, <1>1, <1>2 DEF NoteRequestInv, Mine, Foreign
    <2>6. NoteRequestInv(r)'
      BY <1>0, <1>1, <2>3, <2>4, <2>5, Kept DEF NoteRequestInv, Becomes, noteVars, Read
    <2>7. QED
      BY <1>0, <2>3, <2>4, <2>6, NotesStand, NotesActed, OthersStay
  <1>3. CASE ~Mine(r, t)
    <2>1. Throw(r, Domain("NOTIFICATION_NOT_FOUND"))
      BY <1>1, <1>3 DEF ExistsForUser
    <2>2. Domain("NOTIFICATION_NOT_FOUND") \in Exceptions
      BY DEF Exceptions
    <2>3. /\ CoreInv' /\ Flows
          /\ req'[r].pc = "answered" /\ ~Done(r)'
          /\ \A q \in Request : q # r => req'[q] = req[q]
      BY <1>0, <2>1, <2>2, ThrowEnds
    <2>4. NoteRequestInv(r)'
      BY <2>3 DEF NoteRequestInv
    <2>5. QED
      BY <1>0, <2>3, <2>4, NotesStand, NotesActed
  <1>4. QED
    BY <1>2, <1>3

\* A new row has an id that had none.
LEMMA PersistInboxKeeps ==
    ASSUME CoreInv, NoteInv, NEW r \in Request, PersistInbox(r)
    PROVE  CoreInv' /\ Flows /\ NoteInv' /\ \A q \in Request : q # r => req'[q] = req[q]
  <1> DEFINE row == NewNote(r, Caller(r))
  <1>0. /\ Shape /\ Route(r) = "notify" /\ req[r].pc = "handler" /\ r \in Id /\ early' = early
        /\ Goto(r, "push", row) /\ notes'[r] = row
        /\ DOMAIN notes' = Id /\ \A i \in Id : i # r => notes'[i] = notes[i]
    BY DEF CoreInv, PersistInbox, At, Id, NoteInv
  <1>1. /\ DOMAIN row = {"id", "user", "read", "push"} /\ row.user = Caller(r)
        /\ row.push = "pending" /\ row # NoRow
    BY DEF NewNote, NoRow
  <1>2. Own(r, row)
    BY <1>1 DEF Own
  <1>3. CoreInv' /\ Flows
    BY <1>0, <1>2, GotoCore DEF Mounted
  <1>4. Becomes(r, "push", row, req[r].answer, req[r].after)
    BY <1>0, GotoMoves
  <1>5. Route(r)' = Route(r) /\ Caller(r)' = Caller(r) /\ req'[r].pc = "push" /\ ~Done(r)'
    BY <1>0, <1>3, <1>4, Kept DEF Becomes, Done, Answered
  <1>6. ASSUME NEW i \in Id PROVE NoteRowInv(i)'
    <2>1. CASE i = r
      <3>1. OwnerOf(i)' = Caller(r) /\ Minted(i)'
        BY <1>5, <2>1, IdAssumption DEF OwnerOf, Minted
      <3>2. QED
        BY <1>0, <1>1, <2>1, <3>1 DEF NoteRowInv
    <2>2. CASE i # r
      BY <1>0, <1>3, <2>2, MintedStays, OwnerStays DEF NoteInv, NoteRowInv
    <2>3. QED
      BY <2>1, <2>2
  <1>7. notes[r] = NoRow
    BY <1>0, IdAssumption DEF NoteInv, NoteRowInv, Minted
  <1>8. NotesFollow
    BY <1>0, <1>7 DEF NotesFollow
  <1>9. NoteRequestInv(r)'
    BY <1>0, <1>1, <1>5 DEF NoteRequestInv
  <1>10. QED
    BY <1>0, <1>3, <1>4, <1>6, <1>8, <1>9, NotesActed, OthersStay

\* The push leaves the row alone.
LEMMA PushKeeps ==
    ASSUME CoreInv, NoteInv, NEW r \in Request, Push(r)
    PROVE  CoreInv' /\ Flows /\ NoteInv' /\ \A q \in Request : q # r => req'[q] = req[q]
  <1>0. /\ Shape /\ Route(r) = "notify" /\ req[r].pc = "push" /\ UNCHANGED noteVars
        /\ Own(r, req[r].row) /\ NoteRequestInv(r)
    BY DEF CoreInv, HeldInv, Push, At, NoteInv
  <1>1. PICK result \in {"sent", "skipped", "failed"} : Goto(r, result, req[r].row)
    BY DEF Push
  <1>2. CoreInv' /\ Flows
    BY <1>0, <1>1, GotoCore DEF Mounted
  <1>3. Becomes(r, result, req[r].row, req[r].answer, req[r].after)
    BY <1>0, <1>1, GotoMoves
  <1>4. Route(r)' = Route(r) /\ req'[r].pc = result /\ ~Done(r)'
    BY <1>0, <1>2, <1>3, Kept DEF Becomes, Done, Answered
  <1>5. NoteRequestInv(r)'
    BY <1>0, <1>1, <1>4 DEF NoteRequestInv, noteVars
  <1>6. QED
    BY <1>0, <1>2, <1>3, <1>5, NotesStand, NotesActed, OthersStay

\* The outcome is recorded and a reading is kept.
LEMMA RecordPushKeeps ==
    ASSUME CoreInv, NoteInv, NEW r \in Request, RecordPush(r)
    PROVE  /\ CoreInv' /\ Flows /\ NoteInv' /\ Route(r) = "notify"
           /\ \A q \in Request : q # r => req'[q] = req[q]
  <1>0. /\ Shape /\ req[r].pc \in {"sent", "skipped", "failed"} /\ r \in Id /\ early' = early
        /\ Own(r, req[r].row) /\ NoteRequestInv(r) /\ StepInv(r) /\ NoteRowInv(r)
        /\ Wrote(r, req[r].row, {Caller(r)})
    BY DEF CoreInv, HeldInv, RecordPush, Id, NoteInv
  <1>1. Route(r) = "notify" /\ notes[r] # NoRow
    BY <1>0 DEF StepInv, NoteRequestInv
  <1>2. /\ DOMAIN notes' = Id /\ \A i \in Id : i # r => notes'[i] = notes[i]
        /\ DOMAIN notes'[r] = DOMAIN notes[r] /\ notes'[r].user = notes[r].user
        /\ notes'[r].push = req[r].pc /\ notes'[r].read = notes[r].read /\ notes'[r] # NoRow
    BY <1>0, <1>1 DEF RecordPush, NoteInv, NoteRowInv, NoRow
  <1>3. CoreInv' /\ Flows
    BY <1>0, <1>1, WroteCore, UnauditedNames DEF Mounted, Listing
  <1>4. Becomes(r, "reply", req[r].row, req[r].answer, req[r].after)
    BY <1>0, WroteMoves
  <1>5. ASSUME NEW i \in Id PROVE NoteRowInv(i)'
    <2>1. OwnerOf(i)' = OwnerOf(i) /\ (Minted(i) => Minted(i)')
      BY <1>0, <1>3, MintedStays, OwnerStays
    <2>2. CASE i = r
      BY <1>0, <1>1, <1>2, <2>1, <2>2 DEF NoteRowInv
    <2>3. CASE i # r
      BY <1>0, <1>2, <2>1, <2>3 DEF NoteInv, NoteRowInv
    <2>4. QED
      BY <2>2, <2>3
  <1>6. NotesFollow
    BY <1>0, <1>1, <1>2 DEF NotesFollow
  <1>7. NoteRequestInv(r)'
    BY <1>0, <1>1, <1>2, <1>3, <1>4, Kept DEF NoteRequestInv, Becomes
  <1>8. QED
    BY <1>1, <1>2, <1>3, <1>4, <1>5, <1>6, <1>7, NotesActed, OthersStay

\* Every step of the routes and of the listener.
LEMMA NoteStepKeeps ==
    ASSUME CoreInv, NoteInv, NEW r \in Request, NoteStep(r)
    PROVE  /\ CoreInv' /\ Flows /\ NoteInv' /\ Route(r) \in NoteRoutes
           /\ \A q \in Request : q # r => req'[q] = req[q]
  <1>1. Route(r) \in NoteRoutes
    BY RecordPushKeeps
    DEF NoteStep, ListNotes, MarkRead, ExistsForUser, PersistInbox, Push, At, NoteRoutes
  <1>2. QED
    BY <1>1, ListNotesKeeps, MarkReadKeeps, ExistsForUserKeeps, PersistInboxKeeps, PushKeeps,
       RecordPushKeeps DEF NoteStep


-----------------------------------------------------------------------------
(* Consents. *)

\* A consent is to one of the slug's versions.
LEMMA VersionTarget ==
    ASSUME Shape, NEW r \in Request, Route(r) \in {"accept", "revoke"}
    PROVE  Target(r) \in Version
  BY VersionIds DEF Shape, Calls, Route, Target

\* No version is taken back.
VersionsStay == \A v \in Version : documents[v] # "none" => documents'[v] # "none"

\* A row of the history stays as it was written.
LEMMA StampStays ==
    ASSUME Shape, Flows, VersionsStay, clock \in Nat, clock' \in Nat, clock <= clock',
           NEW c, StampInv(c)
    PROVE  StampInv(c)'
  <1>1. \A q \in Request : /\ Route(q)' = Route(q) /\ Target(q)' = Target(q)
                           /\ Caller(q)' = Caller(q)
    BY Kept
  <1>2. PICK q \in Request : q = c.id
    BY DEF StampInv
  <1>3. /\ Route(q)' \in {"accept", "revoke"} /\ NewConsent(q, c.at)' = NewConsent(q, c.at)
    BY <1>1, <1>2 DEF StampInv, NewConsent
  <1>4. c.at \in Nat /\ c.at <= clock'
    BY DEF StampInv
  <1>5. StampInv(c)' <=>
            /\ c.id \in Request /\ Route(q)' \in {"accept", "revoke"}
            /\ c.at \in Nat /\ c.at <= clock'
            /\ c = NewConsent(q, c.at)'
            /\ c.version \in Version /\ documents'[c.version] # "none"
    BY <1>2 DEF StampInv, NewConsent, Route, Target, Caller
  <1>6. QED
    BY <1>2, <1>3, <1>4, <1>5 DEF StampInv, VersionsStay

\* A row that has its time is of a request whose past is settled.
LEMMA StampedPast ==
    ASSUME CoreInv, Flows, ConsentInv, NEW c \in Stamped
    PROVE  /\ c.id \in Request /\ req[c.id].pc \notin {"new", "handler", "found"}
           /\ req'[c.id].after = req[c.id].after
  <1>1. c.id \in Request /\ req[c.id].pc \notin {"new", "handler", "found"}
    <2>1. CASE c \in consents
      BY <2>1 DEF ConsentInv, StampInv, Stamped
    <2>2. CASE c \notin consents
      <3>1. PICK r \in Request : req[r].pc = "insert" /\ c = req[r].row
        BY <2>2 DEF Stamped
      <3>2. c.id = r
        BY <3>1 DEF ConsentInv, ConsentRequestInv
      <3>3. QED
        BY <3>1, <3>2
    <2>3. QED
      BY <2>1, <2>2
  <1>2. QED
    BY <1>1 DEF Flows, Flow

\* What the feature promises a request outlives the steps of others.
LEMMA ConsentRequestKept ==
    ASSUME CoreInv, CoreInv', Flows, VersionsStay, NEW q \in Request, ConsentRequestInv(q),
           Route(q) \in ConsentRoutes => Passed(q)
    PROVE  ConsentRequestInv(q)'
  <1>1. /\ Shape /\ StepInv(q) /\ StepInv(q)' /\ Route(q)' = Route(q) /\ Target(q)' = Target(q)
        /\ \A i \in Request : Caller(i)' = Caller(i)
    BY Kept DEF CoreInv
  <1>2. CASE Route(q) \in {"accept", "revoke"}
    <2>1. req'[q].pc \in {"found", "insert"} => req'[q] = req[q]
      BY <1>2 DEF Passed, ConsentRoutes
    <2>2. Target(q) \in Version
      BY <1>1, <1>2, VersionTarget
    <2>3. QED
      BY <1>1, <1>2, <2>1, <2>2 DEF ConsentRequestInv, VersionsStay
  <1>3. CASE Route(q) = "listConsents"
    <2>1. Passed(q)
      BY <1>3 DEF ConsentRoutes
    <2>2. Done(q)' => Done(q)
      BY <1>1, <1>3, <2>1 DEF Passed, Done, Answered, StepInv, Listing
    <2>3. Done(q)' => req'[q] = req[q]
      BY <2>2, DoneStays
    <2>4. req'[q].pc # "insert"
      BY <1>1, <1>3 DEF StepInv
    <2>5. ASSUME Done(q)', NEW i \in req'[q].answer.data.ids
          PROVE  i \in Request /\ Caller(i)' = Caller(q)
      BY <1>1, <1>3, <2>2, <2>3, <2>5 DEF ConsentRequestInv
    <2>6. QED
      BY <1>1, <1>3, <2>4, <2>5 DEF ConsentRequestInv
  <1>4. CASE Route(q) \notin {"accept", "revoke", "listConsents"}
    BY <1>1, <1>4 DEF ConsentRequestInv, StepInv
  <1>5. QED
    BY <1>2, <1>3, <1>4

\* Where the history stands, whatever the documents and the requests do.
LEMMA ConsentsStand ==
    ASSUME CoreInv, CoreInv', Flows, ConsentInv, DocumentInv', VersionsStay,
           UNCHANGED <<consents, clock>>,
           \A q \in Request : Route(q) \in ConsentRoutes =>
                \/ Passed(q)
                \/ /\ req[q].pc = "handler" /\ req'[q].pc \in {"found", "answered"}
                   /\ ConsentRequestInv(q)'
    PROVE  ConsentInv'
  <1>1. Shape /\ \A q \in Request : StepInv(q)'
    BY DEF CoreInv
  <1>2. \A q \in Request : Route(q)' = Route(q)
    BY <1>1, Kept
  <1>3. ASSUME NEW q \in Request, req'[q].pc = "insert" PROVE req'[q] = req[q]
    <2>1. Route(q) \in ConsentRoutes
      BY <1>1, <1>2, <1>3 DEF StepInv, ConsentRoutes
    <2>2. QED
      BY <1>3, <2>1 DEF Passed
  <1>4. \A c \in Stamped' : c \in Stamped
    BY <1>3 DEF Stamped
  <1>5. ASSUME NEW c \in Stamped' PROVE StampInv(c)'
    BY <1>1, <1>4, StampStays DEF ConsentInv
  <1>6. ASSUME NEW c \in consents PROVE req'[c.id].pc \notin {"new", "handler", "found", "insert"}
    <2>1. /\ c.id \in Request /\ Route(c.id) \in ConsentRoutes
          /\ req[c.id].pc \notin {"new", "handler", "found", "insert"}
      BY DEF ConsentInv, StampInv, Stamped, ConsentRoutes
    <2>2. QED
      BY <2>1 DEF Passed
  <1>7. OrderInv'
    BY <1>4, StampedPast DEF ConsentInv, OrderInv
  <1>8. ASSUME NEW q \in Request PROVE ConsentRequestInv(q)'
    BY ConsentRequestKept DEF ConsentInv
  <1>9. QED
    BY <1>5, <1>6, <1>7, <1>8 DEF ConsentInv

\* The public routes change nothing.
LEMMA ReadDocumentsKeeps ==
    ASSUME CoreInv, ConsentInv, NEW r \in Request, ReadDocuments(r)
    PROVE  CoreInv' /\ Flows /\ ConsentInv' /\ \A q \in Request : q # r => req'[q] = req[q]
  <1>0. /\ Shape /\ Route(r) \in {"listDocuments", "findDocument"} /\ req[r].pc = "handler"
        /\ UNCHANGED consentVars
    BY DEF CoreInv, ReadDocuments, At
  <1>1. DocumentInv' /\ VersionsStay /\ UNCHANGED <<consents, clock>>
    BY <1>0 DEF ConsentInv, DocumentInv, VersionsStay, consentVars
  <1>2. CASE Throw(r, Domain("LEGAL_DOCUMENT_NOT_FOUND_BY_SLUG"))
    <2>1. Domain("LEGAL_DOCUMENT_NOT_FOUND_BY_SLUG") \in Exceptions
      BY DEF Exceptions
    <2>2. /\ CoreInv' /\ Flows
          /\ req'[r].pc = "answered" /\ ~Done(r)'
          /\ \A q \in Request : q # r => req'[q] = req[q]
      BY <1>0, <1>2, <2>1, ThrowEnds
    <2>3. ConsentRequestInv(r)'
      BY <1>0, <2>2, Kept DEF ConsentRequestInv
    <2>4. \A q \in Request : q # r => Passed(q)
      BY <2>2 DEF Passed
    <2>5. QED
      BY <1>0, <1>1, <2>2, <2>3, <2>4, ConsentsStand
  <1>3. ASSUME NEW row, row = [ids |-> {v \in Version : documents[v] = "current"}], Return(r, row)
        PROVE  CoreInv' /\ Flows /\ ConsentInv' /\ \A q \in Request : q # r => req'[q] = req[q]
    <2>1. Own(r, row) /\ Names(r, row)
      BY <1>0, <1>3, UnauditedNames DEF Own
    <2>2. CoreInv' /\ Flows
      BY <1>0, <1>3, <2>1, ReturnCore DEF Answered
    <2>3. Becomes(r, "answered", NoRow, Success(row), req[r].after)
      BY <1>0, <1>3, ReturnMoves
    <2>4. ConsentRequestInv(r)' /\ req'[r].pc = "answered"
      BY <1>0, <2>2, <2>3, Kept DEF ConsentRequestInv, Becomes
    <2>5. \A q \in Request : q # r => Passed(q) /\ req'[q] = req[q]
      BY <2>3, OthersStay DEF Passed
    <2>6. QED
      BY <1>0, <1>1, <2>2, <2>4, <2>5, ConsentsStand
  <1>4. QED
    BY <1>2, <1>3 DEF ReadDocuments

\* A list shows the caller's rows.
LEMMA ListConsentsKeeps ==
    ASSUME CoreInv, ConsentInv, NEW r \in Request, ListConsents(r)
    PROVE  CoreInv' /\ Flows /\ ConsentInv' /\ \A q \in Request : q # r => req'[q] = req[q]
  <1> DEFINE row == [ids |-> {c.id : c \in {d \in consents : d.user = Caller(r)}}]
  <1>0. /\ Shape /\ Route(r) = "listConsents" /\ req[r].pc = "handler"
        /\ UNCHANGED consentVars /\ Return(r, row)
    BY DEF CoreInv, ListConsents, At
  <1>1. DocumentInv' /\ VersionsStay /\ UNCHANGED <<consents, clock>>
    BY <1>0 DEF ConsentInv, DocumentInv, VersionsStay, consentVars
  <1>2. Own(r, row) /\ Names(r, row)
    BY <1>0, UnauditedNames DEF Own
  <1>3. CoreInv' /\ Flows
    BY <1>0, <1>2, ReturnCore DEF Answered
  <1>4. Becomes(r, "answered", NoRow, Success(row), req[r].after)
    BY <1>0, ReturnMoves
  <1>5. /\ Route(r)' = Route(r) /\ req'[r].pc = "answered"
        /\ \A i \in Request : Caller(i)' = Caller(i)
        /\ req'[r].answer.data.ids = {c.id : c \in {d \in consents : d.user = Caller(r)}}
    BY <1>0, <1>3, <1>4, Kept DEF Becomes, Success
  <1>6. ASSUME NEW c \in consents, c.user = Caller(r)
        PROVE  c.id \in Request /\ Caller(c.id) = Caller(r)
    <2>1. c.id \in Request /\ c = NewConsent(c.id, c.at)
      BY DEF ConsentInv, StampInv, Stamped
    <2>2. NewConsent(c.id, c.at).user = Caller(c.id)
      BY DEF NewConsent
    <2>3. QED
      BY <1>6, <2>1, <2>2
  <1>7. ASSUME NEW i \in req'[r].answer.data.ids
        PROVE  i \in Request /\ Caller(i)' = Caller(r)
    BY <1>5, <1>6
  <1>8. ConsentRequestInv(r)'
    BY <1>0, <1>5, <1>7 DEF ConsentRequestInv
  <1>9. \A q \in Request : q # r => Passed(q) /\ req'[q] = req[q]
    BY <1>4, OthersStay DEF Passed
  <1>10. QED
    BY <1>0, <1>1, <1>3, <1>5, <1>8, <1>9, ConsentsStand

\* The version that is found exists from then on.
LEMMA FindVersionKeeps ==
    ASSUME CoreInv, ConsentInv, NEW r \in Request, FindVersion(r)
    PROVE  CoreInv' /\ Flows /\ ConsentInv' /\ \A q \in Request : q # r => req'[q] = req[q]
  <1>0. /\ Shape /\ Route(r) \in {"accept", "revoke"} /\ req[r].pc = "handler"
        /\ UNCHANGED consentVars
    BY DEF CoreInv, FindVersion, At
  <1>1. DocumentInv' /\ VersionsStay /\ UNCHANGED <<consents, clock>>
    BY <1>0 DEF ConsentInv, DocumentInv, VersionsStay, consentVars
  <1>2. CASE documents[Target(r)] = "none"
    <2>1. Throw(r, Domain("LEGAL_DOCUMENT_NOT_FOUND_BY_SLUG"))
      BY <1>2 DEF FindVersion
    <2>2. Domain("LEGAL_DOCUMENT_NOT_FOUND_BY_SLUG") \in Exceptions
      BY DEF Exceptions
    <2>3. /\ CoreInv' /\ Flows
          /\ req'[r].pc = "answered" /\ ~Done(r)'
          /\ \A q \in Request : q # r => req'[q] = req[q]
      BY <1>0, <2>1, <2>2, ThrowEnds
    <2>4. \A q \in Request : Passed(q)
      BY <2>3 DEF Passed, Done, Answered
    <2>5. QED
      BY <1>1, <2>3, <2>4, ConsentsStand
  <1>3. CASE documents[Target(r)] # "none"
    <2>1. Goto(r, "found", NoRow)
      BY <1>3 DEF FindVersion
    <2>2. Own(r, NoRow) /\ Names(r, NoRow)
      BY <1>0, NoRowHeld, UnauditedNames
    <2>3. CoreInv' /\ Flows
      BY <1>0, <2>1, <2>2, GotoCore DEF Mounted
    <2>4. Becomes(r, "found", NoRow, req[r].answer, req[r].after)
      BY <1>0, <2>1, GotoMoves
    <2>5. Route(r)' = Route(r) /\ Target(r)' = Target(r) /\ req'[r].pc = "found"
      BY <1>0, <2>3, <2>4, Kept DEF Becomes
    <2>6. ConsentRequestInv(r)'
      BY <1>0, <1>3, <2>5 DEF ConsentRequestInv, consentVars
    <2>7. \A q \in Request : q # r => Passed(q) /\ req'[q] = req[q]
      BY <2>4, OthersStay DEF Passed
    <2>8. QED
      BY <1>0, <1>1, <2>3, <2>5, <2>6, <2>7, ConsentsStand
  <1>4. QED
    BY <1>2, <1>3

\* A new time is later than all there are.
LEMMA RecordConsentKeeps ==
    ASSUME CoreInv, ConsentInv, NEW r \in Request, RecordConsent(r)
    PROVE  CoreInv' /\ Flows /\ ConsentInv' /\ \A q \in Request : q # r => req'[q] = req[q]
  <1>00. PICK new : new = NewConsent(r, clock + 1)
    OBVIOUS
  <1>0. /\ Shape /\ Route(r) \in {"accept", "revoke"} /\ req[r].pc = "found"
        /\ documents' = documents /\ consents' = consents
        /\ clock \in Nat /\ clock' = clock + 1 /\ Goto(r, "insert", new)
        /\ ConsentRequestInv(r)
    BY <1>00 DEF CoreInv, RecordConsent, At, ConsentInv
  <1>1. /\ new.id = r /\ new.user = Caller(r) /\ new.at = clock + 1 /\ new.version = Target(r)
    BY <1>00 DEF NewConsent
  <1>2. Own(r, new)
    BY <1>1 DEF Own
  <1>3. CoreInv' /\ Flows
    BY <1>0, <1>2, GotoCore DEF Mounted
  <1>4. Becomes(r, "insert", new, req[r].answer, req[r].after)
    BY <1>0, GotoMoves
  <1>5. /\ \A q \in Request : /\ Route(q)' = Route(q) /\ Target(q)' = Target(q)
                              /\ Caller(q)' = Caller(q)
        /\ VersionsStay /\ DocumentInv' /\ clock' \in Nat /\ clock <= clock'
    BY <1>0, <1>3, Kept DEF VersionsStay, ConsentInv, DocumentInv
  <1>6. /\ req'[r].pc = "insert" /\ req'[r].row = new /\ ~Done(r)'
        /\ \A q \in Request : q # r => req'[q] = req[q]
    BY <1>4 DEF Becomes, Done, Answered
  <1>7. \A c \in Stamped' : c \in Stamped \/ c = new
    BY <1>0, <1>6 DEF Stamped
  <1>8. StampInv(new)'
    <2>1. Target(r) \in Version /\ documents[Target(r)] # "none"
      BY <1>0, VersionTarget DEF ConsentRequestInv
    <2>2. PICK now \in Nat : now = clock + 1
      BY <1>0
    <2>3. NewConsent(r, now)' = NewConsent(r, now) /\ new = NewConsent(r, now)
      BY <1>00, <1>0, <1>5, <2>2 DEF NewConsent
    <2>4. StampInv(new)' <=>
              /\ new.id \in Request /\ Route(r)' \in {"accept", "revoke"}
              /\ new.at \in Nat /\ new.at <= clock'
              /\ new = NewConsent(r, now)'
              /\ new.version \in Version /\ documents'[new.version] # "none"
      BY <1>0, <1>1, <2>2 DEF StampInv, NewConsent, Route, Target, Caller
    <2>5. QED
      BY <1>0, <1>1, <1>5, <2>1, <2>2, <2>3, <2>4
  <1>9. ASSUME NEW c \in Stamped' PROVE StampInv(c)'
    <2>1. CASE c = new
      BY <1>8, <2>1
    <2>2. CASE c \in Stamped
      BY <1>0, <1>3, <1>5, <2>2, StampStays DEF ConsentInv
    <2>3. QED
      BY <1>7, <2>1, <2>2
  <1>10. ASSUME NEW c \in consents PROVE req'[c.id].pc \notin {"new", "handler", "found", "insert"}
    BY <1>0, <1>6 DEF ConsentInv, StampInv, Stamped
  <1>11. OrderInv'
    <2>1. \A c \in Stamped : /\ c.at \in Nat /\ c.at < new.at
                             /\ c.id \in Request /\ req'[c.id].after = req[c.id].after
      BY <1>0, <1>1, <1>3, StampedPast DEF ConsentInv, StampInv
    <2>2. ASSUME NEW c \in Stamped', NEW d \in Stamped', c.at = d.at PROVE c = d
      BY <1>7, <2>1, <2>2 DEF ConsentInv, OrderInv
    <2>3. ASSUME NEW c \in consents', NEW d \in Stamped', c.id \in req'[d.id].after
          PROVE  c.at < d.at
      <3>1. c \in consents /\ c \in Stamped
        BY <1>0 DEF Stamped
      <3>2. QED
        BY <1>7, <2>1, <2>3, <3>1 DEF ConsentInv, OrderInv
    <2>4. QED
      BY <2>2, <2>3 DEF OrderInv
  <1>12. ASSUME NEW q \in Request PROVE ConsentRequestInv(q)'
    <2>1. CASE q = r
      BY <1>0, <1>1, <1>5, <1>6, <2>1 DEF ConsentRequestInv
    <2>2. CASE q # r
      <3>1. Passed(q)
        BY <1>6, <2>2 DEF Passed
      <3>2. QED
        BY <1>3, <1>5, <3>1, ConsentRequestKept DEF ConsentInv
    <2>3. QED
      BY <2>1, <2>2
  <1>13. QED
    BY <1>0, <1>3, <1>5, <1>6, <1>9, <1>10, <1>11, <1>12 DEF ConsentInv

\* A row that becomes visible was in nobody's past: its request was not answered.
LEMMA CommitConsentKeeps ==
    ASSUME CoreInv, ConsentInv, NEW r \in Request, CommitConsent(r)
    PROVE  CoreInv' /\ Flows /\ ConsentInv' /\ \A q \in Request : q # r => req'[q] = req[q]
  <1> DEFINE new == req[r].row
  <1>0. /\ Shape /\ Route(r) \in {"accept", "revoke"} /\ req[r].pc = "insert"
        /\ documents' = documents /\ clock' = clock /\ clock \in Nat
        /\ consents' = consents \cup {new} /\ Wrote(r, new, {Caller(r)})
        /\ Own(r, new) /\ new.id = r /\ new \in Stamped
    BY DEF CoreInv, HeldInv, CommitConsent, At, ConsentInv, ConsentRequestInv, Stamped
  <1>1. Names(r, new)
    BY <1>0, UnauditedNames
  <1>2. CoreInv' /\ Flows
    BY <1>0, <1>1, WroteCore DEF Mounted, Listing
  <1>3. Becomes(r, "reply", new, req[r].answer, req[r].after)
    BY <1>0, WroteMoves
  <1>4. /\ \A q \in Request : /\ Route(q)' = Route(q) /\ Target(q)' = Target(q)
                              /\ Caller(q)' = Caller(q)
        /\ VersionsStay /\ DocumentInv'
    BY <1>0, <1>2, Kept DEF VersionsStay, ConsentInv, DocumentInv
  <1>5. /\ req'[r].pc = "reply" /\ ~Done(r)'
        /\ \A q \in Request : q # r => req'[q] = req[q]
    BY <1>3 DEF Becomes, Done, Answered
  <1>6. \A c \in Stamped' : c \in Stamped
    BY <1>0, <1>5 DEF Stamped
  <1>7. ASSUME NEW c \in Stamped' PROVE StampInv(c)'
    BY <1>0, <1>4, <1>6, <1>2, StampStays DEF ConsentInv
  <1>8. ASSUME NEW c \in consents' PROVE req'[c.id].pc \notin {"new", "handler", "found", "insert"}
    <2>1. CASE c = new
      BY <1>0, <1>5, <2>1
    <2>2. CASE c \in consents
      BY <1>0, <1>5, <2>2 DEF ConsentInv, StampInv, Stamped
    <2>3. QED
      BY <1>0, <2>1, <2>2
  <1>9. OrderInv'
    <2>1. ASSUME NEW c \in consents', NEW d \in Stamped', c.id \in req'[d.id].after
          PROVE  c.at < d.at
      <3>1. c.id \in req[d.id].after /\ d.id \in Request /\ d \in Stamped
        BY <1>2, <1>6, <2>1, StampedPast
      <3>2. Answered(c.id)
        BY <3>1 DEF CoreInv, AfterInv
      <3>3. c \in consents
        BY <1>0, <3>2 DEF Answered
      <3>4. QED
        BY <3>1, <3>3 DEF ConsentInv, OrderInv
    <2>2. QED
      BY <1>6, <2>1 DEF ConsentInv, OrderInv
  <1>10. ASSUME NEW q \in Request PROVE ConsentRequestInv(q)'
    <2>1. CASE q = r
      BY <1>0, <1>4, <1>5, <2>1 DEF ConsentRequestInv
    <2>2. CASE q # r
      <3>1. Passed(q)
        BY <1>5, <2>2 DEF Passed
      <3>2. QED
        BY <1>2, <1>4, <3>1, ConsentRequestKept DEF ConsentInv
    <2>3. QED
      BY <2>1, <2>2
  <1>11. QED
    BY <1>0, <1>2, <1>4, <1>5, <1>7, <1>8, <1>9, <1>10 DEF ConsentInv

\* Every step of the routes.
LEMMA ConsentStepKeeps ==
    ASSUME CoreInv, ConsentInv, NEW r \in Request, ConsentStep(r)
    PROVE  /\ CoreInv' /\ Flows /\ ConsentInv' /\ Route(r) \in ConsentRoutes
           /\ \A q \in Request : q # r => req'[q] = req[q]
  <1>1. Route(r) \in ConsentRoutes
    BY DEF ConsentStep, ReadDocuments, ListConsents, FindVersion, RecordConsent, CommitConsent, At,
           ConsentRoutes
  <1>2. QED
    BY <1>1, ReadDocumentsKeeps, ListConsentsKeeps, FindVersionKeeps, RecordConsentKeeps,
       CommitConsentKeeps DEF ConsentStep

\* Requests that stand still obey the flow.
LEMMA StillFlows ==
    ASSUME Shape, UNCHANGED req
    PROVE  Flows /\ \A q \in Request : Passed(q)
  BY DEF Shape, Flows, Flow, Passed

\* A publication leaves one current version, and takes none back.
LEMMA PublishKeeps ==
    ASSUME CoreInv, ConsentInv, Publish
    PROVE  /\ CoreInv' /\ ConsentInv'
           /\ UNCHANGED <<req, trace, auditVars>>
  <1>1. PICK v \in Version :
            \/ \E isCurrent \in BOOLEAN : UpsertDocument(v, isCurrent)
            \/ ClearOtherCurrents(v)
    BY DEF Publish
  <1>2. UNCHANGED <<consents, clock, req, trace, auditVars>>
    BY <1>1 DEF UpsertDocument, ClearOtherCurrents
  <1>3. CoreInv'
    BY <1>2, StillCore
  <1>4. DocumentInv' /\ VersionsStay
    <2>1. CASE \E isCurrent \in BOOLEAN : UpsertDocument(v, isCurrent)
      BY <2>1 DEF UpsertDocument, OneCurrentPerSlug, ConsentInv, DocumentInv, VersionsStay
    <2>2. CASE ClearOtherCurrents(v)
      BY <2>2 DEF ClearOtherCurrents, ConsentInv, DocumentInv, VersionsStay
    <2>3. QED
      BY <1>1, <2>1, <2>2
  <1>5. Flows /\ \A q \in Request : Passed(q)
    BY <1>2, StillFlows DEF CoreInv
  <1>6. QED
    BY <1>2, <1>3, <1>4, <1>5, ConsentsStand

\* The steps of other features and of the pipeline keep this one's invariant.
LEMMA ConsentsElsewhere ==
    ASSUME CoreInv, CoreInv', Flows, ConsentInv, UNCHANGED consentVars,
           \A q \in Request : Route(q) \in ConsentRoutes => Passed(q)
    PROVE  ConsentInv'
  <1>1. DocumentInv' /\ VersionsStay /\ UNCHANGED <<consents, clock>>
    BY DEF ConsentInv, DocumentInv, VersionsStay, consentVars
  <1>2. QED
    BY <1>1, ConsentsStand


-----------------------------------------------------------------------------
(* The response cache. *)

Evicter(q) == /\ q \in Request /\ Route(q) = "evictingWrite"
              /\ req[q].pc \notin {"new", "handler", "found"}

\* Who has sent a DEL has changed the value before.
LEMMA EvictersStay ==
    ASSUME CoreInv, Flows, CacheInv,
           \A q \in Request : Route(q) \in CacheRoutes =>
                Passed(q) \/ req[q].pc \in {"handler", "found"}
    PROVE  \A q \in evicting \cup evicted : Evicter(q)'
  <1> SUFFICES ASSUME NEW q \in evicting \cup evicted PROVE Evicter(q)'
    OBVIOUS
  <1>1. q \in Request /\ Route(q) \in CacheRoutes /\ Evicter(q)
    BY DEF CacheInv, Evicter, CacheRoutes
  <1>2. Route(q)' = Route(q)
    BY <1>1, Kept DEF CoreInv
  <1>3. QED
    BY <1>1, <1>2 DEF Passed, Evicter

\* The steps of other features and of the pipeline keep this one's invariant.
LEMMA CacheElsewhere ==
    ASSUME CoreInv, Flows, CacheInv, UNCHANGED cacheVars,
           \A q \in Request : Route(q) \in CacheRoutes =>
                Passed(q) \/ req[q].pc \in {"handler", "found"}
    PROVE  CacheInv'
  <1>1. \A q \in evicting \cup evicted : Evicter(q)'
    BY EvictersStay
  <1>2. QED
    BY <1>1 DEF CacheInv, FreshUnlessRaced, Evicter, cacheVars

\* Every step of a decorated handler.
LEMMA CacheStepKeeps ==
    ASSUME CoreInv, CacheInv, NEW r \in Request, CacheStep(r)
    PROVE  /\ CoreInv' /\ Flows /\ CacheInv' /\ Route(r) \in CacheRoutes
           /\ \A q \in Request : q # r => req'[q] = req[q]
  <1>0. /\ Shape /\ Route(r) \in CacheRoutes /\ req[r].pc \in {"handler", "found", "reply"}
        /\ Own(r, NoRow) /\ \A row : Names(r, row)
    <2>1. Route(r) \in CacheRoutes /\ req[r].pc \in {"handler", "found", "reply"}
      BY DEF CacheStep, ReadCache, LoadAndFill, CallWriter, WriteSource, ReturnWriter, At,
             CacheRoutes
    <2>2. \A row : Names(r, row)
      BY <2>1, UnauditedNames DEF CacheRoutes
    <2>3. QED
      BY <2>1, <2>2, NoRowHeld DEF CoreInv
  <1>1. ASSUME NEW row, Return(r, row), "user" \notin DOMAIN row
        PROVE  /\ CoreInv' /\ Flows /\ req'[r].pc = "answered"
               /\ \A q \in Request : q # r => req'[q] = req[q]
    <2>1. CoreInv' /\ Flows
      BY <1>0, <1>1, ReturnCore DEF Own, Answered
    <2>2. Becomes(r, "answered", NoRow, Success(row), req[r].after)
      BY <1>0, <1>1, ReturnMoves
    <2>3. QED
      BY <2>1, <2>2, OthersStay DEF Becomes
  <1>2. ASSUME Goto(r, "found", NoRow), req[r].pc = "handler"
        PROVE  /\ CoreInv' /\ Flows
               /\ \A q \in Request : q # r => req'[q] = req[q]
    <2>1. CoreInv' /\ Flows
      BY <1>0, <1>2, GotoCore DEF Mounted, CacheRoutes
    <2>2. Becomes(r, "found", NoRow, req[r].answer, req[r].after)
      BY <1>0, <1>2, GotoMoves
    <2>3. QED
      BY <2>1, <2>2, OthersStay
  <1>3. ASSUME \A q \in Request : q # r => req'[q] = req[q], req[r].pc \in {"handler", "found"},
               Flows
        PROVE  \A q \in evicting \cup evicted : Evicter(q)'
    <2>1. \A q \in Request : Passed(q) \/ req[q].pc \in {"handler", "found"}
      BY <1>3 DEF Passed
    <2>2. QED
      BY <1>3, <2>1, EvictersStay
  <1>4. CASE ReadCache(r)
    <2>0. UNCHANGED cacheVars /\ req[r].pc = "handler"
      BY <1>4 DEF ReadCache, At
    <2>1. CASE Goto(r, "found", NoRow)
      <3>1. /\ CoreInv' /\ Flows /\ \A q \in Request : q # r => req'[q] = req[q]
        BY <1>2, <2>0, <2>1
      <3>2. \A q \in evicting \cup evicted : Evicter(q)'
        BY <1>3, <2>0, <3>1
      <3>3. CacheInv'
        BY <2>0, <3>2 DEF CacheInv, FreshUnlessRaced, Evicter, cacheVars
      <3>4. QED
        BY <1>0, <3>1, <3>3
    <2>2. CASE Return(r, [ids |-> {}, value |-> cache.value])
      <3>1. /\ CoreInv' /\ Flows /\ \A q \in Request : q # r => req'[q] = req[q]
        BY <1>1, <2>2
      <3>2. \A q \in evicting \cup evicted : Evicter(q)'
        BY <1>3, <2>0, <3>1
      <3>3. CacheInv'
        BY <2>0, <3>2 DEF CacheInv, FreshUnlessRaced, Evicter, cacheVars
      <3>4. QED
        BY <1>0, <3>1, <3>3
    <2>3. QED
      BY <1>4, <2>1, <2>2 DEF ReadCache
  <1>5. CASE LoadAndFill(r)
    <2>0. /\ UNCHANGED <<source, cache, evicting, evicted>> /\ req[r].pc = "found"
          /\ Return(r, [ids |-> {}, value |-> source])
          /\ filling' \subseteq filling \cup {Fill(r)}
      BY <1>5 DEF LoadAndFill, At
    <2>1. /\ CoreInv' /\ Flows /\ \A q \in Request : q # r => req'[q] = req[q]
      BY <1>1, <2>0
    <2>2. \A q \in evicting \cup evicted : Evicter(q)'
      BY <1>3, <2>0, <2>1
    <2>3. DOMAIN Fill(r) = {"by", "value", "raced"} /\ Fill(r).value = source
      BY DEF Fill
    <2>4. CacheInv'
      BY <2>0, <2>2, <2>3 DEF CacheInv, FreshUnlessRaced, Evicter
    <2>5. QED
      BY <1>0, <2>1, <2>4
  <1>6. CASE CallWriter(r)
    <2>0. UNCHANGED cacheVars /\ req[r].pc = "handler" /\ Goto(r, "found", NoRow)
      BY <1>6 DEF CallWriter, EvictAfter, At, cacheVars
    <2>1. /\ CoreInv' /\ Flows /\ \A q \in Request : q # r => req'[q] = req[q]
      BY <1>2, <2>0
    <2>2. \A q \in evicting \cup evicted : Evicter(q)'
      BY <1>3, <2>0, <2>1
    <2>3. CacheInv'
      BY <2>0, <2>2 DEF CacheInv, FreshUnlessRaced, Evicter, cacheVars
    <2>4. QED
      BY <1>0, <2>1, <2>3
  <1>7. CASE WriteSource(r)
    <2>0. /\ UNCHANGED <<cache, evicting, evicted>> /\ req[r].pc = "found"
          /\ Wrote(r, NoRow, {Caller(r)}) /\ source' = r
          /\ filling' = {[f EXCEPT !.raced = TRUE] : f \in filling}
      BY <1>7 DEF WriteSource, At
    <2>1. CoreInv' /\ Flows
      BY <1>0, <2>0, WroteCore DEF Mounted, Listing, CacheRoutes
    <2>2. \A q \in Request : q # r => req'[q] = req[q]
      BY <1>0, <2>0, WroteMoves, OthersStay
    <2>3. \A q \in evicting \cup evicted : Evicter(q)'
      BY <1>3, <2>0, <2>1, <2>2
    <2>4. r \notin evicted
      BY <2>0 DEF CacheInv
    <2>5. \A f \in filling' : DOMAIN f = {"by", "value", "raced"} /\ f.raced
      BY <2>0 DEF CacheInv
    <2>6. CacheInv'
      BY <2>0, <2>3, <2>4, <2>5 DEF CacheInv, FreshUnlessRaced, Evicter
    <2>7. QED
      BY <1>0, <2>1, <2>2, <2>6
  <1>8. CASE ReturnWriter(r)
    <2>0. /\ UNCHANGED <<source, cache, filling, evicted>> /\ req[r].pc = "reply"
          /\ Return(r, NoRow) /\ evicting' = evicting \cup {r} /\ Route(r) = "evictingWrite"
      BY <1>8 DEF ReturnWriter, EvictAfter, At
    <2>1. /\ CoreInv' /\ Flows /\ req'[r].pc = "answered"
          /\ \A q \in Request : q # r => req'[q] = req[q]
      BY <1>1, <2>0 DEF NoRow
    <2>2. ASSUME NEW q \in evicting' \cup evicted' PROVE Evicter(q)'
      <3>1. q = r \/ (q \in evicting \cup evicted /\ Evicter(q))
        BY <2>0 DEF CacheInv, Evicter
      <3>2. Route(q)' = Route(q) /\ q \in Request
        BY <1>0, <2>1, <3>1, Kept DEF Evicter
      <3>3. QED
        BY <2>0, <2>1, <3>1, <3>2 DEF Evicter
    <2>3. CacheInv'
      BY <2>0, <2>2 DEF CacheInv, FreshUnlessRaced, Evicter
    <2>4. QED
      BY <1>0, <2>1, <2>3
  <1>9. QED
    BY <1>4, <1>5, <1>6, <1>7, <1>8 DEF CacheStep

\* A SET, a DEL or the end of a key's time, long after the requests.
LEMMA RedisKeeps ==
    ASSUME CoreInv, CacheInv,
           (\E f \in filling : WriteCache(f)) \/ (\E r \in evicting : Evict(r)) \/ Expire
    PROVE  CacheInv' /\ UNCHANGED <<requestVars, auditVars>>
  <1>1. UNCHANGED <<requestVars, auditVars, source>> /\ filling' \subseteq filling
    BY DEF WriteCache, Evict, Expire
  <1>2. evicting' \cup evicted' \subseteq evicting \cup evicted
    BY DEF WriteCache, Evict, Expire
  <1>3. FreshUnlessRaced'
    <2>1. ASSUME NEW f \in filling, WriteCache(f) PROVE FreshUnlessRaced'
      BY <1>1, <2>1 DEF WriteCache, CacheInv, FreshUnlessRaced
    <2>2. ASSUME NEW r \in evicting, Evict(r) PROVE FreshUnlessRaced'
      BY <1>1, <2>2 DEF Evict, CacheInv, FreshUnlessRaced
    <2>3. CASE Expire
      BY <1>1, <2>3 DEF Expire, FreshUnlessRaced
    <2>4. QED
      BY <2>1, <2>2, <2>3
  <1>4. QED
    BY <1>1, <1>2, <1>3 DEF CacheInv, Route, requestVars


-----------------------------------------------------------------------------
(* The documents that are served. *)

\* The tags of a release have files.
LEMMA SpecParsed ==
    ASSUME release \in 1..Len(Specs)
    PROVE  Parsed(spec.ops)
  <1>1. release \in DOMAIN Specs
    BY SpecsAssumption
  <1>2. QED
    BY <1>1, SpecsAssumption DEF Parsed, Tags, spec

MobileOnly(ops) == \A op \in ops : Tags(op) \cap MobileTags # {}

\* The mobile document is filtered.
LEMMA DocumentScoped == MobileOnly(Document("mobile"))
  BY DEF MobileOnly, Document, FilterDocumentByTags

\* The release is a number.
LEMMA ReleaseNumber ==
    ASSUME DocsInv
    PROVE  release \in Nat /\ release <= release
  BY DEF DocsInv, ServerInv

\* A step that leaves server and requests alone.
LEMMA ServerStands ==
    ASSUME ServerInv, UNCHANGED <<release, postman, req, fetched>>
    PROVE  ServerInv'
  BY DEF ServerInv, MobileScoped, WaitersServed, Route, Target, Done, Answered, spec

\* What the document and the dictionary are of stays true as releases go by.
LEMMA DatedStands ==
    ASSUME DocsInv, release' \in Nat, release <= release', UNCHANGED fetched, gen'.ops = gen.ops,
           gen'.pc # "idle" => gen.pc # "idle",
           Translated' => Translated /\ files'["enums.md"] = files["enums.md"]
    PROVE  DatedInv'
  <1>1. release \in Nat /\ 1..release \subseteq 1..release'
    BY DEF DocsInv, ServerInv
  <1>2. \A ops : FromRelease(ops) => FromRelease(ops)'
    BY <1>1 DEF FromRelease
  <1>3. ASSUME Translated'
        PROVE  \E n \in 1..release' :
                  /\ gen'.ops = Specs[n].ops
                  /\ \E k \in n..release' : files'["enums.md"].shows = Dictionary(Specs[k].enums)
    <2>1. PICK n \in 1..release :
              /\ gen.ops = Specs[n].ops
              /\ \E k \in n..release : files["enums.md"].shows = Dictionary(Specs[k].enums)
      BY <1>3 DEF DocsInv, DatedInv
    <2>2. n \in 1..release' /\ n..release \subseteq n..release'
      BY <1>1, <2>1
    <2>3. QED
      BY <1>3, <2>1, <2>2
  <1>4. QED
    BY <1>2, <1>3 DEF DocsInv, DatedInv

\* What a step does to the requests for the documents.
Scoped(q) ==
    \/ Passed(q)
    \/ Done(q)' /\ \E m : m = Target(q) /\ req'[q].answer.data.ids = Document(m)
    \/ ~Done(q)'

\* The documents that were served stay filtered.
LEMMA ScopedKept ==
    ASSUME CoreInv, Flows, MobileScoped, \A q \in Request : Route(q) \in Mounted => Scoped(q)
    PROVE  MobileScoped'
  <1> SUFFICES ASSUME NEW q \in Request, Route(q)' \in Mounted, Done(q)', Target(q)' = "mobile"
               PROVE  MobileOnly(req'[q].answer.data.ids)
    BY DEF MobileScoped, MobileOnly
  <1>1. Route(q) \in Mounted /\ Target(q) = "mobile" /\ StepInv(q)
    BY Kept DEF CoreInv
  <1>2. CASE Passed(q)
    <2>1. Done(q) /\ req'[q] = req[q]
      BY <1>1, <1>2, DoneStays DEF Passed, Done, Answered, StepInv
    <2>2. QED
      BY <1>1, <2>1 DEF MobileScoped, MobileOnly
  <1>3. CASE ~Passed(q)
    <2>1. req'[q].answer.data.ids = Document("mobile")
      BY <1>1, <1>3 DEF Scoped
    <2>2. QED
      BY <2>1, DocumentScoped
  <1>4. QED
    BY <1>2, <1>3

\* The server's steps leave the generator's part alone.
LEMMA ServedKeeps ==
    ASSUME CoreInv, Flows, DocsInv, UNCHANGED <<fetched, files, manifest, gen>>,
           release' \in 1..Len(Specs), release <= release', DOMAIN postman' = Mount, WaitersServed',
           \A q \in Request : Route(q) \in Mounted => Scoped(q)
    PROVE  DocsInv'
  <1>1. MobileScoped'
    BY ScopedKept DEF DocsInv, ServerInv
  <1>2. GenInv' /\ FilesInv'
    BY DEF DocsInv, GenInv, FilesInv, HandwrittenKept, Settled
  <1>3. EarlierInv' /\ MadeInv'
    BY DEF DocsInv, EarlierInv, MadeInv, Made, TagFiles, Untagged, Settled
  <1>4. ShowsInv'
    BY DEF DocsInv, ShowsInv, Alone, OpsOf, Settled
  <1>5. ServerInv'
    BY <1>1 DEF DocsInv, ServerInv
  <1>6. DatedInv'
    BY DatedStands DEF Translated, Settled
  <1>7. QED
    BY <1>2, <1>3, <1>4, <1>5, <1>6 DEF DocsInv

\* A call for a document names a mount there is.
LEMMA MountTarget ==
    ASSUME Shape, NEW r \in Request, Route(r) \in Mounted
    PROVE  Target(r) \in Mount
  BY DocIds DEF Shape, Calls, Route, Target

\* The steps of other features and of the pipeline keep this one's invariant.
LEMMA DocsElsewhere ==
    ASSUME CoreInv, CoreInv', Flows, DocsInv, UNCHANGED docsVars,
           \A q \in Request : Route(q) \in Mounted => Passed(q)
    PROVE  DocsInv'
  <1>1. ASSUME NEW q \in Request, req'[q].pc = "waiting" PROVE postman[Target(q)'] = "converting"
    <2>1. Route(q) \in Mounted /\ Target(q)' = Target(q)
      BY <1>1, Kept DEF CoreInv, StepInv
    <2>2. req[q].pc = "waiting"
      BY <1>1, <2>1 DEF Passed
    <2>3. QED
      BY <2>1, <2>2 DEF DocsInv, ServerInv, WaitersServed
  <1>2. release \in 1..Len(Specs) /\ release <= release
    BY DEF DocsInv, ServerInv
  <1>3. WaitersServed' /\ DOMAIN postman' = Mount
    BY <1>1 DEF WaitersServed, docsVars, DocsInv, ServerInv
  <1>4. QED
    BY <1>2, <1>3, ServedKeeps DEF Scoped, docsVars

\* A request for a document or a collection, whole or filtered.
LEMMA GetDocsKeeps ==
    ASSUME CoreInv, DocsInv, NEW r \in Request, GetDocs(r)
    PROVE  /\ CoreInv' /\ Flows /\ DocsInv' /\ Route(r) \in Mounted
           /\ \A q \in Request : q # r => req'[q] = req[q]
  <1>0. /\ Shape /\ Route(r) \in Mounted /\ req[r].pc = "new" /\ Target(r) \in Mount
        /\ UNCHANGED <<fetched, files, manifest, gen>>
        /\ release' \in 1..Len(Specs) /\ release <= release'
        /\ Own(r, NoRow) /\ \A row : Names(r, row)
    <2>1. Route(r) \in Mounted
      BY DEF GetDocs
    <2>2. \A row : Names(r, row)
      BY <2>1, UnauditedNames DEF Mounted
    <2>3. QED
      BY <2>1, <2>2, NoRowHeld, MountTarget DEF CoreInv, GetDocs, DocsInv, ServerInv
  <1>1. ASSUME Flows, \A q \in Request : q # r => req'[q] = req[q], DOMAIN postman' = Mount,
               \A m \in Mount : postman[m] = "converting" => postman'[m] = "converting",
               req'[r].pc = "waiting" => postman'[Target(r)] = "converting"
        PROVE  WaitersServed'
    <2> SUFFICES ASSUME NEW q \in Request, req'[q].pc = "waiting"
                 PROVE  postman'[Target(q)'] = "converting"
      BY DEF WaitersServed
    <2>1. Target(q)' = Target(q)
      BY <1>0, <1>1, Kept
    <2>2. CASE q = r
      BY <1>1, <2>1, <2>2
    <2>3. CASE q # r
      <3>1. req[q].pc = "waiting" /\ Target(q) \in Mount
        BY <1>0, <1>1, <2>3, MountTarget DEF CoreInv, StepInv
      <3>2. QED
        BY <1>1, <2>1, <3>1 DEF DocsInv, ServerInv, WaitersServed
    <2>4. QED
      BY <2>2, <2>3
  <1>2. CASE Deny(r) /\ UNCHANGED postman
    <2>1. /\ Becomes(r, "answered", req[r].row, Bare(401), req[r].after)
          /\ UNCHANGED <<trace, auditVars>>
      BY <1>0, <1>2 DEF Deny, Becomes, Shape
    <2>2. MoveOK(r, "answered", req[r].row, Bare(401), req[r].after)
      BY <1>0, <2>1, Unwritten, BareTold DEF MoveOK, CoreInv, HeldInv, AfterInv, Listing, Mounted
    <2>3. CoreInv' /\ Flows
      BY <1>0, <2>1, <2>2, BareTold, MoveCore DEF Answered
    <2>4. ~Done(r)' /\ req'[r].pc # "waiting" /\ \A q \in Request : q # r => req'[q] = req[q]
      BY <2>1, BareTold DEF Becomes, Done
    <2>5. \A q \in Request : Scoped(q)
      BY <2>4 DEF Scoped, Passed
    <2>6. WaitersServed' /\ DOMAIN postman' = Mount
      BY <1>1, <1>2, <2>3, <2>4 DEF DocsInv, ServerInv
    <2>7. QED
      BY <1>0, <2>3, <2>4, <2>5, <2>6, ServedKeeps
  <1>3. CASE /\ Goto(r, "waiting", NoRow)
             /\ postman' = [postman EXCEPT ![Target(r)] = "converting"]
    <2>1. CoreInv' /\ Flows
      BY <1>0, <1>3, GotoCore
    <2>2. Becomes(r, "waiting", NoRow, req[r].answer, req[r].after)
      BY <1>0, <1>3, GotoMoves
    <2>3. ~Done(r)' /\ \A q \in Request : q # r => req'[q] = req[q]
      BY <2>2 DEF Becomes, Done, Answered
    <2>4. \A q \in Request : Scoped(q)
      BY <2>3 DEF Scoped, Passed
    <2>5. DOMAIN postman' = Mount /\ \A m \in Mount : postman'[m] =
              IF m = Target(r) THEN "converting" ELSE postman[m]
      BY <1>0, <1>3 DEF DocsInv, ServerInv
    <2>6. WaitersServed'
      BY <1>0, <1>1, <2>1, <2>3, <2>5
    <2>7. QED
      BY <1>0, <2>1, <2>3, <2>4, <2>5, <2>6, ServedKeeps
  <1>4. CASE Return(r, [ids |-> Document(Target(r))]) /\ UNCHANGED postman
    <2> DEFINE row == [ids |-> Document(Target(r))]
    <2>1. Own(r, row)
      BY DEF Own
    <2>2. CoreInv' /\ Flows
      BY <1>0, <1>4, <2>1, ReturnCore DEF Answered
    <2>3. Becomes(r, "answered", NoRow, Success(row), req[r].after)
      BY <1>0, <1>4, ReturnMoves
    <2>4. /\ Done(r)' /\ req'[r].answer.data.ids = Document(Target(r)) /\ req'[r].pc # "waiting"
          /\ \A q \in Request : q # r => req'[q] = req[q]
      BY <2>3 DEF Becomes, Done, Answered, Success, Succeeded
    <2>5. \A q \in Request : Scoped(q)
      BY <2>4 DEF Scoped, Passed
    <2>6. WaitersServed' /\ DOMAIN postman' = Mount
      BY <1>1, <1>4, <2>2, <2>4 DEF DocsInv, ServerInv
    <2>7. QED
      BY <1>0, <2>2, <2>4, <2>5, <2>6, ServedKeeps
  <1>5. QED
    BY <1>2, <1>3, <1>4 DEF GetDocs

\* The end of a conversion serves the collection that was asked for.
LEMMA ConvertedKeeps ==
    ASSUME CoreInv, DocsInv, NEW m \in Mount, Converted(m)
    PROVE  DocsInv'
  <1>0. /\ CoreInv' /\ Flows /\ Shape /\ UNCHANGED <<fetched, files, manifest, gen>>
        /\ release' \in 1..Len(Specs) /\ release <= release'
    <2>1. UNCHANGED <<release, fetched, files, manifest, gen>>
      BY DEF Converted
    <2>2. QED
      BY <2>1, ConvertedCore, ReleaseNumber DEF CoreInv, DocsInv, ServerInv
  <1>1. PICK result \in {Success([ids |-> Document(m)]), Bare(500)} : req' = Served(m, result)
    BY DEF Converted
  <1>2. ASSUME NEW q \in Request PROVE Scoped(q)
    <2>1. CASE ~Waits(q, m)
      BY <1>0, <1>1, <2>1, ServedMoves DEF Scoped, Passed
    <2>2. CASE Waits(q, m)
      <3>1. req'[q].pc = "answered" /\ req'[q].answer = result /\ Target(q) = m
        BY <1>0, <1>1, <2>2, ServedMoves DEF Waits
      <3>2. Success([ids |-> Document(m)]).data.ids = Document(m)
        BY DEF Success
      <3>3. CASE result = Success([ids |-> Document(m)])
        BY <3>1, <3>2, <3>3 DEF Scoped, Done, Answered, Succeeded
      <3>4. CASE result = Bare(500)
        BY <3>1, <3>4, BareTold DEF Scoped, Done
      <3>5. QED
        BY <3>3, <3>4
    <2>3. QED
      BY <2>1, <2>2
  <1>3. DOMAIN postman' = Mount /\ \A n \in Mount : n # m => postman'[n] = postman[n]
    BY DEF Converted, DocsInv, ServerInv
  <1>4. WaitersServed'
    <2> SUFFICES ASSUME NEW q \in Request, req'[q].pc = "waiting"
                 PROVE  postman'[Target(q)'] = "converting"
      BY DEF WaitersServed
    <2>1. req'[q] = req[q] /\ ~Waits(q, m)
      BY <1>0, <1>1, ServedMoves
    <2>2. Target(q)' = Target(q) /\ Target(q) \in Mount /\ Target(q) # m
      BY <1>0, <2>1, Kept, MountTarget DEF CoreInv, StepInv, Waits
    <2>3. QED
      BY <1>3, <2>1, <2>2 DEF DocsInv, ServerInv, WaitersServed
  <1>5. QED
    BY <1>0, <1>2, <1>3, <1>4, ServedKeeps

\* A release serves nothing, and nobody waits in the new process.
LEMMA ReleaseKeeps ==
    ASSUME CoreInv, DocsInv, Release
    PROVE  DocsInv'
  <1>0. /\ CoreInv' /\ Flows /\ Shape /\ UNCHANGED <<fetched, files, manifest, gen>>
        /\ release' \in 1..Len(Specs) /\ release <= release'
    <2>1. Len(Specs) \in Nat
      BY SpecsAssumption
    <2>2. QED
      BY <2>1, ReleaseCore DEF Release, CoreInv, DocsInv, ServerInv
  <1>1. ASSUME NEW q \in Request PROVE Scoped(q) /\ req'[q].pc # "waiting"
    BY <1>0 DEF Release, Scoped, Passed, Shape
  <1>2. WaitersServed' /\ DOMAIN postman' = Mount
    BY <1>1 DEF WaitersServed, Release
  <1>3. QED
    BY <1>0, <1>1, <1>2, ServedKeeps


-----------------------------------------------------------------------------
(* The generator. *)

\* What it writes is of the run, and nothing else changes.
LEMMA FileWritten ==
    ASSUME GenInv, FilesInv, EarlierInv, NEW x \in Generated, NEW shows,
           Write(x, shows), UNCHANGED manifest,
           gen.pc \notin {"idle", "clean"}, gen'.pc \notin {"idle", "clean"},
           gen'.run = gen.run, gen'.died = gen.died
    PROVE  /\ FilesInv' /\ EarlierInv' /\ Made' = Made \cup {x}
           /\ files'[x].shows = shows /\ \A f \in File : f # x => files'[f] = files[f]
  <1>1. x \in File
    BY DEF Generated, Fixed, File
  <1>2. /\ DOMAIN files' = File /\ files'[x] = [run |-> gen.run, shows |-> shows]
        /\ \A f \in File : f # x => files'[f] = files[f]
    BY <1>1 DEF Write, FilesInv
  <1>3. HandwrittenKept'
    <2> SUFFICES ASSUME NEW f \in Handwritten, f \notin Generated PROVE files'[f] = ByHand
      BY DEF HandwrittenKept, Generated, Fixed
    <2>1. f \in File /\ f # x /\ files[f] = ByHand
      BY DEF File, FilesInv, HandwrittenKept, Generated, Fixed
    <2>2. QED
      BY <1>2, <2>1
  <1>4. FilesInv'
    <2>1. \A f \in File : DOMAIN files'[f] = {"run", "shows"} /\ files'[f].run \in Nat
                          /\ files'[f].run <= gen'.run
      BY <1>2 DEF FilesInv, GenInv
    <2>2. QED
      BY <1>2, <1>3, <2>1 DEF FilesInv
  <1>5. EarlierInv'
    BY <1>2 DEF EarlierInv
  <1>6. Made' = Made \cup {x}
    BY <1>1, <1>2 DEF Made
  <1>7. QED
    BY <1>2, <1>4, <1>5, <1>6

\* A tag that was parsed has a file the generator may write.
LEMMA TagNamed ==
    ASSUME NEW ops, Parsed(ops), NEW t \in TagsOf(ops)
    PROVE  t \in DOMAIN FileOf /\ FileOf[t] \in Generated
  BY DEF Parsed, TagsOf, Generated

\* A run writes generated files only.
LEMMA WrittenGenerated ==
    ASSUME NEW ops, Parsed(ops)
    PROVE  Written(ops) \subseteq Generated
  <1>1. \A t \in TagsOf(ops) : FileOf[t] \in Generated
    BY TagNamed
  <1>2. Fixed \subseteq Generated
    BY DEF Generated
  <1>3. QED
    BY <1>1, <1>2 DEF Written, Fixed

\* What curl stores is a document of a release, or garbage.
LEMMA FetchKeeps ==
    ASSUME DocsInv, Fetch
    PROVE  DocsInv' /\ UNCHANGED <<req, trace, auditVars>>
  <1>1. /\ UNCHANGED <<release, postman, files, manifest, gen, req, trace, auditVars>>
        /\ release \in 1..Len(Specs)
    BY DEF Fetch, DocsInv, ServerInv
  <1>2. fetched' = Garbage \/ (DOMAIN fetched' = {"ops", "enums", "garbage"} /\ Parsed(fetched'.ops))
    BY <1>1, SpecParsed DEF Fetch
  <1>3. MobileScoped'
    BY <1>1 DEF DocsInv, ServerInv, MobileScoped, Route, Target, Done, Answered
  <1>4. ServerInv'
    BY <1>1, <1>2, <1>3 DEF DocsInv, ServerInv, Parsed, WaitersServed, Target
  <1>5. GenInv' /\ FilesInv' /\ EarlierInv' /\ MadeInv' /\ ShowsInv'
    BY <1>1 DEF DocsInv, GenInv, FilesInv, HandwrittenKept, Settled, EarlierInv, MadeInv, Made,
                TagFiles, Untagged, ShowsInv, Alone, OpsOf
  <1>6. DatedInv'
    <2>1. fetched' = Garbage \/ fetched'.ops = Specs[release].ops
      BY DEF Fetch, spec
    <2>2. release \in 1..release
      BY <1>1
    <2>3. fetched' = Garbage \/ FromRelease(fetched.ops)'
      BY <1>1, <2>1, <2>2 DEF FromRelease
    <2>4. QED
      BY <1>1, <2>3 DEF DocsInv, DatedInv, FromRelease, Translated, Settled
  <1>7. QED
    BY <1>1, <1>4, <1>5, <1>6 DEF DocsInv

\* A new run has no file yet; those there are are in the manifest or of a dead run.
LEMMA ParseKeeps ==
    ASSUME DocsInv, Parse
    PROVE  DocsInv' /\ UNCHANGED <<req, trace, auditVars>>
  <1>1. UNCHANGED <<release, postman, fetched, files, manifest, req, trace, auditVars>>
    BY DEF Parse
  <1>2. /\ gen.pc = "idle" /\ Parsed(fetched.ops)
        /\ DOMAIN gen' = DOMAIN gen /\ gen'.pc = "clean" /\ gen'.run = gen.run + 1
        /\ gen'.ops = fetched.ops /\ gen'.tags = TagsOf(fetched.ops) /\ gen'.died = gen.died
    BY DEF Parse, DocsInv, GenInv, ServerInv, Garbage
  <1>3. ServerInv'
    BY <1>1, ServerStands DEF DocsInv
  <1>4. GenInv'
    <2>1. /\ gen'.run \in Nat /\ gen'.run > 0 /\ gen'.run \notin gen.died
          /\ \A n \in gen'.died : n \in Nat /\ n <= gen'.run
      <3>1. gen.run \in Nat /\ \A n \in gen.died : n \in Nat /\ n <= gen.run
        BY DEF DocsInv, GenInv
      <3>2. ASSUME NEW n \in gen.died PROVE n # gen.run + 1
        BY <3>1
      <3>3. QED
        BY <1>2, <3>1, <3>2 DEF DocsInv, GenInv
    <2>2. QED
      BY <1>2, <2>1 DEF DocsInv, GenInv, Settled
  <1>5. FilesInv'
    BY <1>1, <1>2 DEF DocsInv, GenInv, FilesInv, HandwrittenKept
  <1>6. EarlierInv'
    BY <1>1, <1>2 DEF DocsInv, EarlierInv
  <1>7. MadeInv'
    <2>1. Made' = {}
      BY <1>1, <1>2 DEF Made, DocsInv, FilesInv, GenInv
    <2>2. QED
      BY <1>2, <2>1 DEF MadeInv, Settled
  <1>8. ShowsInv'
    BY <1>2 DEF ShowsInv, Settled
  <1>9. DatedInv'
    <2>1. fetched # Garbage
      BY DEF Parse, Garbage
    <2>2. QED
      BY <1>1, <1>2, <2>1 DEF DocsInv, DatedInv, FromRelease, Translated, Settled
  <1>10. QED
    BY <1>1, <1>3, <1>4, <1>5, <1>6, <1>7, <1>8, <1>9 DEF DocsInv

\* What the manifest names is removed, and no handwritten file is.
LEMMA CleanKeeps ==
    ASSUME DocsInv, Clean
    PROVE  DocsInv'
  <1>1. UNCHANGED <<release, postman, fetched, manifest, req>>
    BY DEF Clean, GenStep, requestVars
  <1>2. /\ gen.pc = "clean"
        /\ DOMAIN gen' = DOMAIN gen /\ gen'.pc = "tags" /\ gen'.run = gen.run
        /\ gen'.ops = gen.ops /\ gen'.tags = gen.tags /\ gen'.died = gen.died
        /\ gen.tags = TagsOf(gen.ops) /\ gen.run > 0 /\ gen.run \in Nat
    BY DEF Clean, GenStep, DocsInv, GenInv
  <1>3. /\ DOMAIN files' = File
        /\ \A f \in File : files'[f] = IF f \in manifest THEN NoFile ELSE files[f]
        /\ NoFile.run = 0 /\ DOMAIN NoFile = {"run", "shows"}
    BY DEF Clean, NoFile
  <1>4. ServerInv'
    BY <1>1, ServerStands DEF DocsInv
  <1>5. GenInv'
    BY <1>2 DEF DocsInv, GenInv, Settled
  <1>6. FilesInv'
    <2>1. HandwrittenKept'
      <3> SUFFICES ASSUME NEW f \in Handwritten, f \notin Generated PROVE files'[f] = ByHand
        BY DEF HandwrittenKept, Generated, Fixed
      <3>1. f \in File /\ files[f] = ByHand /\ f \notin manifest
        BY DEF File, DocsInv, FilesInv, HandwrittenKept, Generated, Fixed
      <3>2. QED
        BY <1>3, <3>1
    <2>2. QED
      BY <1>1, <1>2, <1>3, <2>1 DEF DocsInv, FilesInv
  <1>7. EarlierInv'
    BY <1>1, <1>2, <1>3 DEF DocsInv, EarlierInv
  <1>8. MadeInv'
    <2>1. Made' = {}
      BY <1>2, <1>3 DEF Made, DocsInv, MadeInv
    <2>2. TagFiles' = {}
      BY <1>2 DEF TagFiles
    <2>3. QED
      BY <1>2, <2>1, <2>2 DEF MadeInv, Settled
  <1>9. ShowsInv'
    BY <1>2 DEF ShowsInv, Settled
  <1>10. DatedInv'
    BY <1>1, <1>2, ReleaseNumber, DatedStands DEF Translated, Settled
  <1>11. QED
    BY <1>4, <1>5, <1>6, <1>7, <1>8, <1>9, <1>10 DEF DocsInv

\* A tag's file shows its operations, unless another tag takes its name.
LEMMA WriteTagKeeps ==
    ASSUME DocsInv, WriteTag
    PROVE  DocsInv'
  <1>1. PICK tag \in gen.tags :
            Write(FileOf[tag], OpsOf(tag)) /\ gen' = [gen EXCEPT !.tags = gen.tags \ {tag}]
    BY DEF WriteTag
  <1>2. UNCHANGED <<release, postman, fetched, manifest, req>>
    BY DEF WriteTag, GenStep, requestVars
  <1>3. /\ gen.pc = "tags"
        /\ DOMAIN gen' = DOMAIN gen /\ gen'.pc = gen.pc /\ gen'.run = gen.run
        /\ gen'.ops = gen.ops /\ gen'.tags = gen.tags \ {tag} /\ gen'.died = gen.died
    BY <1>1 DEF WriteTag, GenStep, DocsInv, GenInv
  <1>4. tag \in TagsOf(gen.ops) /\ FileOf[tag] \in Generated
    BY TagNamed DEF DocsInv, GenInv
  <1>5. /\ FilesInv' /\ EarlierInv' /\ Made' = Made \cup {FileOf[tag]}
        /\ files'[FileOf[tag]].shows = OpsOf(tag)
        /\ \A f \in File : f # FileOf[tag] => files'[f] = files[f]
    BY <1>1, <1>2, <1>3, <1>4, FileWritten DEF DocsInv
  <1>6. ServerInv'
    BY <1>2, ServerStands DEF DocsInv
  <1>7. GenInv'
    BY <1>3 DEF DocsInv, GenInv, Settled
  <1>8. MadeInv'
    <2>1. TagFiles' = TagFiles \cup {FileOf[tag]}
      BY <1>3, <1>4 DEF TagFiles
    <2>2. QED
      BY <1>3, <1>5, <2>1 DEF DocsInv, MadeInv, Settled
  <1>9. ShowsInv'
    <2>1. ASSUME NEW t \in TagsOf(gen.ops), t \notin gen'.tags, Alone(t)
          PROVE  files'[FileOf[t]].shows = OpsOf(t)
      <3>1. CASE t = tag
        BY <1>5, <3>1
      <3>2. CASE t # tag
        <4>1. FileOf[t] # FileOf[tag] /\ t \notin gen.tags
          BY <1>3, <1>4, <2>1, <3>2 DEF Alone
        <4>2. FileOf[t] \in File
          BY TagNamed DEF DocsInv, GenInv, File
        <4>3. files[FileOf[t]].shows = OpsOf(t)
          BY <1>3, <2>1, <4>1 DEF DocsInv, ShowsInv
        <4>4. QED
          BY <1>5, <4>1, <4>2, <4>3
      <3>3. QED
        BY <3>1, <3>2
    <2>2. \A t : (Alone(t)' <=> Alone(t)) /\ OpsOf(t)' = OpsOf(t)
      BY <1>3 DEF Alone, OpsOf
    <2>3. QED
      BY <1>3, <2>1, <2>2 DEF ShowsInv, Settled
  <1>10. DatedInv'
    BY <1>2, <1>3, ReleaseNumber, DatedStands DEF Translated, Settled
  <1>11. QED
    BY <1>5, <1>6, <1>7, <1>8, <1>9, <1>10 DEF DocsInv

\* What is shown of a tag stays, when a file of a fixed name is written.
LEMMA TagsShown ==
    ASSUME DocsInv, NEW x \in Fixed, \A f \in File : f # x => files'[f] = files[f],
           gen.pc \notin {"idle", "clean"}, gen'.ops = gen.ops, gen'.tags = gen.tags
    PROVE  \A t \in TagsOf(gen'.ops) \ gen'.tags : Alone(t)' => files'[FileOf[t]].shows = OpsOf(t)'
  <1> SUFFICES ASSUME NEW t \in TagsOf(gen.ops) \ gen.tags, Alone(t)
               PROVE  files'[FileOf[t]].shows = OpsOf(t)
    BY DEF Alone, OpsOf
  <1>1. FileOf[t] \in File /\ FileOf[t] # x
    BY TagNamed DEF DocsInv, GenInv, File, Alone
  <1>2. files[FileOf[t]].shows = OpsOf(t)
    BY DEF DocsInv, ShowsInv
  <1>3. QED
    BY <1>1, <1>2

\* The steps of the generator that go to the next one.
Advances(pc) ==
    /\ gen' = [gen EXCEPT !.pc = pc]
    /\ UNCHANGED <<release, postman, fetched, req>>

\* Going to the next step changes nothing else.
LEMMA GenAdvances ==
    ASSUME DocsInv, NEW pc, Advances(pc)
    PROVE  /\ DOMAIN gen' = DOMAIN gen /\ gen'.pc = pc /\ gen'.run = gen.run /\ gen'.ops = gen.ops
           /\ gen'.tags = gen.tags /\ gen'.died = gen.died /\ ServerInv'
           /\ TagFiles' = TagFiles /\ Untagged' = Untagged
           /\ gen.pc \in {"tags", "readme"} /\ pc \in {"readme", "enums"} => DatedInv'
           /\ gen.pc \in {"index", "manifest"} /\ files'["enums.md"] = files["enums.md"] => DatedInv'
  <1>1. ServerInv'
    BY ServerStands DEF Advances, DocsInv
  <1>2. /\ DOMAIN gen' = DOMAIN gen /\ gen'.pc = pc /\ gen'.run = gen.run /\ gen'.ops = gen.ops
        /\ gen'.tags = gen.tags /\ gen'.died = gen.died
    BY DEF Advances, DocsInv, GenInv
  <1>3. UNCHANGED <<release, fetched>> /\ release \in Nat /\ release <= release
    BY ReleaseNumber DEF Advances
  <1>4. gen.pc \in {"tags", "readme"} /\ pc \in {"readme", "enums"} => DatedInv'
    BY <1>2, <1>3, DatedStands DEF Translated, Settled
  <1>5. gen.pc \in {"index", "manifest"} /\ files'["enums.md"] = files["enums.md"] => DatedInv'
    BY <1>2, <1>3, DatedStands DEF Translated
  <1>6. QED
    BY <1>1, <1>2, <1>4, <1>5 DEF TagFiles, Untagged

\* The file of the untagged operations, if any.
LEMMA WriteUntaggedKeeps ==
    ASSUME DocsInv, WriteUntagged
    PROVE  DocsInv'
  <1>1. /\ gen.pc = "tags" /\ gen.tags = {} /\ Advances("readme") /\ UNCHANGED manifest
    BY DEF WriteUntagged, GenStep, Advances, requestVars
  <1>2. /\ DOMAIN gen' = DOMAIN gen /\ gen'.pc = "readme" /\ gen'.run = gen.run /\ gen'.ops = gen.ops
        /\ gen'.tags = gen.tags /\ gen'.died = gen.died /\ ServerInv' /\ DatedInv'
        /\ TagFiles' = TagFiles /\ Untagged' = Untagged
    BY <1>1, GenAdvances
  <1>3. GenInv'
    BY <1>1, <1>2 DEF DocsInv, GenInv, Settled
  <1>4. CASE Untagged = {}
    <2>1. \A op \in gen.ops : Tags(op) # {}
      BY <1>4 DEF Untagged
    <2>2. UNCHANGED files
      BY <2>1 DEF WriteUntagged, Tagged
    <2>3. FilesInv' /\ EarlierInv'
      BY <1>1, <1>2, <2>2 DEF DocsInv, FilesInv, HandwrittenKept, EarlierInv
    <2>4. MadeInv'
      BY <1>1, <1>2, <1>4, <2>2 DEF DocsInv, MadeInv, Made, Settled
    <2>5. ShowsInv'
      BY <1>1, <1>2, <2>2 DEF DocsInv, ShowsInv, Alone, OpsOf, Settled
    <2>6. QED
      BY <1>2, <1>3, <2>3, <2>4, <2>5 DEF DocsInv
  <1>5. CASE Untagged # {}
    <2>1. Untagged = {"untagged.md"} /\ \E op \in gen.ops : Tags(op) = {}
      BY <1>5 DEF Untagged
    <2>2. PICK shows : Write("untagged.md", shows)
      BY <2>1 DEF WriteUntagged, Tagged
    <2>3. "untagged.md" \in Generated /\ "untagged.md" \in Fixed
      BY DEF Generated, Fixed
    <2>4. /\ FilesInv' /\ EarlierInv' /\ Made' = Made \cup {"untagged.md"}
          /\ \A f \in File : f # "untagged.md" => files'[f] = files[f]
      BY <1>1, <1>2, <2>2, <2>3, FileWritten DEF DocsInv
    <2>5. MadeInv'
      BY <1>1, <1>2, <2>1, <2>4 DEF DocsInv, MadeInv, Settled
    <2>6. ShowsInv'
      BY <1>1, <1>2, <2>3, <2>4, TagsShown DEF ShowsInv, Settled
    <2>7. QED
      BY <1>2, <1>3, <2>4, <2>5, <2>6 DEF DocsInv
  <1>6. QED
    BY <1>4, <1>5

\* The index shows the files so far.
LEMMA WriteReadmeKeeps ==
    ASSUME DocsInv, WriteReadme
    PROVE  DocsInv'
  <1> DEFINE shows == Written(gen.ops) \ {"README.md", "enums.md"}
  <1>1. /\ gen.pc = "readme" /\ Write("README.md", shows) /\ Advances("enums") /\ UNCHANGED manifest
    BY DEF WriteReadme, GenStep, Advances, requestVars
  <1>2. /\ DOMAIN gen' = DOMAIN gen /\ gen'.pc = "enums" /\ gen'.run = gen.run /\ gen'.ops = gen.ops
        /\ gen'.tags = gen.tags /\ gen'.died = gen.died /\ ServerInv' /\ DatedInv'
        /\ TagFiles' = TagFiles /\ Untagged' = Untagged
    BY <1>1, GenAdvances
  <1>3. "README.md" \in Generated /\ "README.md" \in Fixed
    BY DEF Generated, Fixed
  <1>4. /\ FilesInv' /\ EarlierInv' /\ Made' = Made \cup {"README.md"}
        /\ files'["README.md"].shows = shows
        /\ \A f \in File : f # "README.md" => files'[f] = files[f]
    BY <1>1, <1>2, <1>3, FileWritten DEF DocsInv
  <1>5. GenInv'
    BY <1>1, <1>2 DEF DocsInv, GenInv, Settled
  <1>6. MadeInv'
    BY <1>1, <1>2, <1>4 DEF DocsInv, MadeInv, Settled
  <1>7. ShowsInv'
    BY <1>1, <1>2, <1>3, <1>4, TagsShown DEF ShowsInv, Settled
  <1>8. QED
    BY <1>2, <1>4, <1>5, <1>6, <1>7 DEF DocsInv

\* The dictionary, which completes the files of the run.
LEMMA WriteEnumsKeeps ==
    ASSUME DocsInv, WriteEnums
    PROVE  DocsInv'
  <1> DEFINE shows == Dictionary(Specs[release].enums)
  <1>1. /\ gen.pc = "enums" /\ Write("enums.md", shows) /\ Advances("index")
        /\ UNCHANGED manifest
    BY DEF WriteEnums, GenStep, Advances, requestVars, spec
  <1>2. /\ DOMAIN gen' = DOMAIN gen /\ gen'.pc = "index" /\ gen'.run = gen.run /\ gen'.ops = gen.ops
        /\ gen'.tags = gen.tags /\ gen'.died = gen.died /\ ServerInv'
        /\ TagFiles' = TagFiles /\ Untagged' = Untagged
    BY <1>1, GenAdvances
  <1>3. "enums.md" \in Generated /\ "enums.md" \in Fixed /\ "README.md" \in File
    BY DEF Generated, Fixed, File
  <1>4. /\ FilesInv' /\ EarlierInv' /\ Made' = Made \cup {"enums.md"}
        /\ files'["enums.md"].shows = shows
        /\ \A f \in File : f # "enums.md" => files'[f] = files[f]
    BY <1>1, <1>2, <1>3, FileWritten DEF DocsInv
  <1>5. GenInv'
    BY <1>1, <1>2 DEF DocsInv, GenInv, Settled
  <1>6. MadeInv'
    <2>1. Made = TagFiles \cup Untagged \cup {"README.md"} /\ gen.tags = {}
      BY <1>1 DEF DocsInv, MadeInv, GenInv
    <2>2. TagFiles = {FileOf[t] : t \in TagsOf(gen.ops)}
      BY <2>1 DEF TagFiles
    <2>3. Made' = Written(gen.ops)
      BY <1>4, <2>1, <2>2 DEF Written, Untagged
    <2>4. QED
      BY <1>2, <2>3 DEF MadeInv, Settled
  <1>7. ShowsInv'
    BY <1>1, <1>2, <1>3, <1>4, TagsShown DEF DocsInv, ShowsInv, Settled
  <1>8. DatedInv'
    <2>1. files'["enums.md"].shows = Dictionary(Specs[release].enums)
      BY <1>4
    <2>2. PICK n \in 1..release : gen.ops = Specs[n].ops
      BY <1>1 DEF DocsInv, DatedInv, FromRelease
    <2>3. release \in n..release
      BY <2>2, ReleaseNumber
    <2>4. UNCHANGED <<release, fetched>>
      BY <1>1 DEF Advances
    <2>5. QED
      BY <1>2, <2>1, <2>2, <2>3, <2>4 DEF DocsInv, DatedInv, FromRelease
  <1>9. QED
    BY <1>2, <1>4, <1>5, <1>6, <1>7, <1>8 DEF DocsInv

\* The index gets the dictionary's line.
LEMMA IndexEnumsKeeps ==
    ASSUME DocsInv, IndexEnums
    PROVE  DocsInv'
  <1> DEFINE shows == files["README.md"].shows \cup {"enums.md"}
  <1>1. /\ gen.pc = "index" /\ Write("README.md", shows) /\ Advances("manifest")
        /\ UNCHANGED manifest
    BY DEF IndexEnums, GenStep, Advances, requestVars
  <1>2. /\ DOMAIN gen' = DOMAIN gen /\ gen'.pc = "manifest" /\ gen'.run = gen.run
        /\ gen'.ops = gen.ops
        /\ gen'.tags = gen.tags /\ gen'.died = gen.died /\ ServerInv'
        /\ TagFiles' = TagFiles /\ Untagged' = Untagged
    BY <1>1, GenAdvances
  <1>3. "README.md" \in Generated /\ "README.md" \in Fixed
    BY DEF Generated, Fixed
  <1>4. /\ FilesInv' /\ EarlierInv' /\ Made' = Made \cup {"README.md"}
        /\ files'["README.md"].shows = shows
        /\ \A f \in File : f # "README.md" => files'[f] = files[f]
    BY <1>1, <1>2, <1>3, FileWritten DEF DocsInv
  <1>5. GenInv'
    BY <1>1, <1>2 DEF DocsInv, GenInv, Settled
  <1>6. {"README.md", "enums.md"} \subseteq Written(gen.ops)
    BY DEF Written
  <1>7. MadeInv'
    BY <1>1, <1>2, <1>4, <1>6 DEF DocsInv, MadeInv, Settled
  <1>8. shows = Written(gen.ops) \ {"README.md"}
    BY <1>1, <1>6 DEF DocsInv, ShowsInv
  <1>9. ShowsInv'
    BY <1>1, <1>2, <1>3, <1>4, <1>8, TagsShown DEF ShowsInv, Settled
  <1>10. DatedInv'
    <2>1. "enums.md" \in File
      BY DEF File
    <2>2. QED
      BY <1>1, <1>4, <2>1, GenAdvances
  <1>11. QED
    BY <1>2, <1>4, <1>5, <1>7, <1>9, <1>10 DEF DocsInv

\* The manifest names the files of the run.
LEMMA WriteManifestKeeps ==
    ASSUME DocsInv, WriteManifest
    PROVE  DocsInv'
  <1>1. /\ gen.pc = "manifest" /\ Advances("idle") /\ UNCHANGED files
        /\ manifest' = Written(gen.ops)
    BY DEF WriteManifest, GenStep, Advances, requestVars
  <1>2. /\ DOMAIN gen' = DOMAIN gen /\ gen'.pc = "idle" /\ gen'.run = gen.run /\ gen'.ops = gen.ops
        /\ gen'.tags = gen.tags /\ gen'.died = gen.died /\ ServerInv'
        /\ TagFiles' = TagFiles /\ Untagged' = Untagged
    BY <1>1, GenAdvances
  <1>3. Made = Written(gen.ops) /\ Made' = Made /\ gen.tags = {}
    BY <1>1, <1>2 DEF DocsInv, MadeInv, GenInv, Made
  <1>4. GenInv'
    BY <1>1, <1>2, <1>3 DEF DocsInv, GenInv, Settled
  <1>5. manifest' \subseteq Generated
    BY <1>1, WrittenGenerated DEF DocsInv, GenInv
  <1>6. FilesInv'
    BY <1>1, <1>2, <1>5 DEF DocsInv, FilesInv, HandwrittenKept
  <1>7. EarlierInv'
    BY <1>1, <1>2, <1>3 DEF DocsInv, EarlierInv, Made
  <1>8. MadeInv'
    BY <1>1, <1>2, <1>3 DEF MadeInv, Settled
  <1>9. ShowsInv'
    BY <1>1, <1>2 DEF DocsInv, ShowsInv, Alone, OpsOf, Settled
  <1>10. DatedInv'
    BY <1>1, GenAdvances
  <1>11. QED
    BY <1>2, <1>4, <1>6, <1>7, <1>8, <1>9, <1>10 DEF DocsInv

\* A run that is interrupted has died, and its files are known to be of it.
LEMMA InterruptKeeps ==
    ASSUME DocsInv, Interrupt
    PROVE  DocsInv' /\ UNCHANGED <<req, trace, auditVars>>
  <1>1. UNCHANGED <<release, postman, fetched, files, manifest, req, trace, auditVars>>
    BY DEF Interrupt
  <1>2. /\ gen.pc # "idle" /\ DOMAIN gen' = DOMAIN gen /\ gen'.pc = "idle" /\ gen'.run = gen.run
        /\ gen'.ops = gen.ops /\ gen'.tags = {} /\ gen'.died = gen.died \cup {gen.run}
    BY DEF Interrupt, DocsInv, GenInv
  <1>3. ServerInv'
    BY <1>1, ServerStands DEF DocsInv
  <1>4. GenInv'
    BY <1>2 DEF DocsInv, GenInv, Settled
  <1>5. FilesInv'
    BY <1>1, <1>2 DEF DocsInv, FilesInv, HandwrittenKept
  <1>6. EarlierInv'
    BY <1>1, <1>2 DEF DocsInv, EarlierInv
  <1>7. MadeInv' /\ ShowsInv'
    BY <1>2 DEF MadeInv, ShowsInv, Settled
  <1>8. DatedInv'
    BY <1>1, <1>2, ReleaseNumber, DatedStands DEF Translated, Settled
  <1>9. QED
    BY <1>1, <1>3, <1>4, <1>5, <1>6, <1>7, <1>8 DEF DocsInv

\* Every step of the generator.
LEMMA GenerateKeeps ==
    ASSUME DocsInv, Generate
    PROVE  DocsInv' /\ UNCHANGED <<req, trace, auditVars>>
  <1>1. CASE Fetch \/ Parse \/ Interrupt
    BY <1>1, FetchKeeps, ParseKeeps, InterruptKeeps
  <1>2. CASE Clean \/ WriteTag \/ WriteUntagged \/ WriteReadme \/ WriteEnums \/ IndexEnums
             \/ WriteManifest
    <2>1. UNCHANGED <<req, trace, auditVars>>
      BY <1>2 DEF Clean, WriteTag, WriteUntagged, WriteReadme, WriteEnums, IndexEnums,
                  WriteManifest, GenStep, requestVars
    <2>2. QED
      BY <1>2, <2>1, CleanKeeps, WriteTagKeeps, WriteUntaggedKeeps, WriteReadmeKeeps,
         WriteEnumsKeeps, IndexEnumsKeeps, WriteManifestKeeps
  <1>3. QED
    BY <1>1, <1>2 DEF Generate


-----------------------------------------------------------------------------
(* The invariant holds. *)

\* No request has started.
LEMMA InitCore ==
    ASSUME Init
    PROVE  CoreInv /\ \A r \in Request : req[r].pc = "new" /\ ~Answered(r)
  <1>1. PICK mix \in Mixes : RequestInit(mix)
    BY DEF Init
  <1>2. PICK call \in [Request -> mix.calls] :
            req = [r \in Request |-> [call |-> call[r], pc |-> "new", row |-> NoRow,
                                      answer |-> NoAnswer, after |-> {}]]
    BY <1>1 DEF RequestInit
  <1>3. ASSUME NEW r \in Request
        PROVE  /\ DOMAIN req[r] = {"call", "pc", "row", "answer", "after"}
               /\ req[r].call \in Calls /\ req[r].pc = "new" /\ req[r].row = NoRow
               /\ req[r].answer = NoAnswer /\ req[r].after = {}
    BY <1>2 DEF Calls
  <1>4. Shape
    BY <1>2, <1>3 DEF Shape
  <1>5. \A r \in Request : req[r].pc = "new" /\ ~Answered(r)
    BY <1>3 DEF Answered
  <1>6. ASSUME NEW r \in Request PROVE StepInv(r) /\ HeldInv(r) /\ AnswerInv(r) /\ AfterInv(r)
    BY <1>3, NoRowHeld DEF StepInv, HeldInv, AnswerInv, AfterInv, Answered
  <1>7. TraceInv /\ Trail = {}
    BY <1>1 DEF RequestInit, TraceInv, Init, AuditInit, Trail
  <1>8. QED
    BY <1>4, <1>5, <1>6, <1>7 DEF CoreInv, Done

\* The directory holds the handwritten files only.
LEMMA InitDocs ==
    ASSUME Init
    PROVE  DocsInv
  <1>1. DocsInit
    BY DEF Init
  <1>2. ~Settled /\ gen.pc = "idle" /\ gen.run = 0 /\ gen.died = {}
    BY <1>1 DEF DocsInit, Settled
  <1>3. GenInv
    BY <1>1, <1>2 DEF DocsInit, GenInv, Parsed, TagsOf
  <1>4. \A f \in File : files[f] = IF f \in Handwritten THEN ByHand ELSE NoFile
    BY <1>1 DEF DocsInit
  <1>5. FilesInv
    <2>1. DOMAIN files = File /\ manifest = {}
      BY <1>1 DEF DocsInit
    <2>2. /\ DOMAIN ByHand = {"run", "shows"} /\ ByHand.run = 0
          /\ DOMAIN NoFile = {"run", "shows"} /\ NoFile.run = 0
      BY DEF ByHand, NoFile
    <2>3. HandwrittenKept
      BY <1>4 DEF HandwrittenKept, File
    <2>4. QED
      BY <1>2, <1>4, <2>1, <2>2, <2>3 DEF FilesInv
  <1>6. EarlierInv
    BY <1>4 DEF EarlierInv, ByHand, NoFile
  <1>7. MadeInv /\ ShowsInv
    BY <1>2 DEF MadeInv, ShowsInv
  <1>8. ServerInv
    <2>1. 1 \in 1..Len(Specs)
      BY SpecsAssumption
    <2>2. MobileScoped
      BY InitCore DEF MobileScoped, Done
    <2>3. WaitersServed
      BY InitCore DEF WaitersServed
    <2>4. QED
      BY <1>1, <2>1, <2>2, <2>3 DEF DocsInit, ServerInv
  <1>9. DatedInv
    BY <1>1, <1>2 DEF DocsInit, DatedInv, Translated
  <1>10. QED
    BY <1>3, <1>5, <1>6, <1>7, <1>8, <1>9 DEF DocsInv

\* The invariant holds at the start.
LEMMA InitInv ==
    ASSUME Init
    PROVE  IInv
  <1>1. CoreInv /\ \A r \in Request : req[r].pc = "new" /\ ~Answered(r) /\ ~Done(r)
    BY InitCore DEF Done
  <1>2. ReportInv
    <2>1. DOMAIN reports = Id /\ \A i \in Id : reports[i] # NoRow => i \in Existing /\ reports[i] = NewReport(i)
      BY DEF Init, ReportsInit
    <2>2. \A i : /\ DOMAIN NewReport(i) = {"id", "active", "by"} /\ NewReport(i).id = i
                 /\ NewReport(i).active \in BOOLEAN /\ DOMAIN NewReport(i).by = Field
      BY DEF NewReport
    <2>3. ASSUME NEW i \in Id PROVE ReportRowInv(i)
      BY <2>1, <2>2 DEF ReportRowInv, Minted
    <2>4. \A r \in Request : ReportRequestInv(r)
      BY <1>1 DEF ReportRequestInv
    <2>5. QED
      BY <2>1, <2>3, <2>4 DEF ReportInv
  <1>3. TodoInv
    <2>1. DOMAIN todos = Id /\ \A i \in Id : todos[i] # NoRow => i \in Existing /\ todos[i] = NewTodo(i, Owner)
      BY DEF Init, TodosInit
    <2>2. \A i \in Id : TodoRowInv(i)
      BY <2>1 DEF TodoRowInv, NewTodo, Minted, OwnerOf
    <2>3. \A r \in Request : TodoRequestInv(r)
      BY <1>1 DEF TodoRequestInv
    <2>4. QED
      BY <2>1, <2>2, <2>3 DEF TodoInv
  <1>4. NoteInv
    <2>1. /\ DOMAIN notes = Id
          /\ \A i \in Id : notes[i] = IF i \in Existing THEN NewNote(i, Owner) ELSE NoRow
      BY DEF Init, NotesInit
    <2>2. \A i : /\ DOMAIN NewNote(i, Owner) = {"id", "user", "read", "push"}
                 /\ NewNote(i, Owner).user = Owner /\ NewNote(i, Owner).push = "pending"
                 /\ NewNote(i, Owner) # NoRow
      BY DEF NewNote, NoRow
    <2>3. \A i \in Id : NoteRowInv(i)
      BY <2>1, <2>2 DEF NoteRowInv, Minted, OwnerOf
    <2>4. \A r \in Request : NoteRequestInv(r)
      BY <1>1 DEF NoteRequestInv
    <2>5. QED
      BY <2>1, <2>3, <2>4 DEF NoteInv
  <1>5. ConsentInv
    <2>1. consents = {} /\ Stamped = {} /\ clock = 0
      BY <1>1 DEF Init, ConsentsInit, Stamped
    <2>2. DocumentInv
      BY DEF Init, ConsentsInit, DocumentInv
    <2>3. \A r \in Request : ConsentRequestInv(r)
      BY <1>1 DEF ConsentRequestInv
    <2>4. QED
      BY <2>1, <2>2, <2>3 DEF ConsentInv, OrderInv
  <1>6. CacheInv
    BY DEF Init, CacheInit, CacheInv, FreshUnlessRaced
  <1>7. QED
    BY <1>1, <1>2, <1>3, <1>4, <1>5, <1>6, InitDocs DEF IInv

\* The routes of one feature are no other's.
LEMMA RoutesApart ==
    ASSUME NEW q
    PROVE  /\ Route(q) \in ReportRoutes =>
                Route(q) \notin TodoRoutes \cup NoteRoutes \cup ConsentRoutes \cup CacheRoutes \cup Mounted
           /\ Route(q) \in TodoRoutes =>
                Route(q) \notin NoteRoutes \cup ConsentRoutes \cup CacheRoutes \cup Mounted
           /\ Route(q) \in NoteRoutes => Route(q) \notin ConsentRoutes \cup CacheRoutes \cup Mounted
           /\ Route(q) \in ConsentRoutes => Route(q) \notin CacheRoutes \cup Mounted
           /\ Route(q) \in CacheRoutes => Route(q) \notin Mounted
  BY DEF ReportRoutes, TodoRoutes, NoteRoutes, ConsentRoutes, CacheRoutes, Mounted

\* The pipeline's steps keep the invariant.
LEMMA PipelineKeeps ==
    ASSUME IInv, NEW r \in Request, Pipeline(r)
    PROVE  IInv'
  <1>1. CoreInv' /\ Flows /\ Shape /\ \A q \in Request : Passed(q) /\ Scoped(q)
    BY PipelineCore DEF IInv, CoreInv, Scoped
  <1>2. UNCHANGED <<reports, todos, noteVars, consentVars, cacheVars, docsVars>>
    BY DEF Pipeline
  <1>3. QED
    BY <1>1, <1>2, ReportsElsewhere, TodosElsewhere, NotesElsewhere, ConsentsElsewhere,
       CacheElsewhere, DocsElsewhere DEF IInv

\* A handler's step keeps its own feature's part, and the others pass.
LEMMA HandlerKeeps ==
    ASSUME IInv, NEW r \in Request, Handler(r)
    PROVE  IInv'
  <1>0. Shape /\ \A q \in Request : req'[q] = req[q] => Passed(q) /\ Scoped(q)
    BY DEF IInv, CoreInv, Passed, Scoped
  <1>1. CASE ReportStep(r) /\ UNCHANGED <<todos, noteVars, consentVars, cacheVars, docsVars>>
    <2>1. /\ CoreInv' /\ Flows /\ ReportInv' /\ Route(r) \in ReportRoutes
          /\ \A q \in Request : q # r => Passed(q) /\ Scoped(q)
      BY <1>0, <1>1, ReportStepKeeps DEF IInv
    <2>2. \A q \in Request :
              Route(q) \in TodoRoutes \cup NoteRoutes \cup ConsentRoutes \cup CacheRoutes \cup Mounted =>
                  Passed(q) /\ Scoped(q)
      BY <2>1, RoutesApart
    <2>3. QED
      BY <1>0, <1>1, <2>1, <2>2, TodosElsewhere, NotesElsewhere, ConsentsElsewhere,
         CacheElsewhere, DocsElsewhere DEF IInv
  <1>2. CASE TodoStep(r) /\ UNCHANGED <<reports, noteVars, consentVars, cacheVars, docsVars>>
    <2>1. /\ CoreInv' /\ Flows /\ TodoInv' /\ Route(r) \in TodoRoutes
          /\ \A q \in Request : q # r => Passed(q) /\ Scoped(q)
      BY <1>0, <1>2, TodoStepKeeps DEF IInv
    <2>2. \A q \in Request :
              Route(q) \in ReportRoutes \cup NoteRoutes \cup ConsentRoutes \cup CacheRoutes \cup Mounted =>
                  Passed(q) /\ Scoped(q)
      BY <2>1, RoutesApart
    <2>3. QED
      BY <1>0, <1>2, <2>1, <2>2, ReportsElsewhere, NotesElsewhere, ConsentsElsewhere,
         CacheElsewhere, DocsElsewhere DEF IInv
  <1>3. CASE NoteStep(r) /\ UNCHANGED <<reports, todos, consentVars, cacheVars, docsVars>>
    <2>1. /\ CoreInv' /\ Flows /\ NoteInv' /\ Route(r) \in NoteRoutes
          /\ \A q \in Request : q # r => Passed(q) /\ Scoped(q)
      BY <1>0, <1>3, NoteStepKeeps DEF IInv
    <2>2. \A q \in Request :
              Route(q) \in ReportRoutes \cup TodoRoutes \cup ConsentRoutes \cup CacheRoutes \cup Mounted =>
                  Passed(q) /\ Scoped(q)
      BY <2>1, RoutesApart
    <2>3. QED
      BY <1>0, <1>3, <2>1, <2>2, ReportsElsewhere, TodosElsewhere, ConsentsElsewhere,
         CacheElsewhere, DocsElsewhere DEF IInv
  <1>4. CASE ConsentStep(r) /\ UNCHANGED <<reports, todos, noteVars, cacheVars, docsVars>>
    <2>1. /\ CoreInv' /\ Flows /\ ConsentInv' /\ Route(r) \in ConsentRoutes
          /\ \A q \in Request : q # r => Passed(q) /\ Scoped(q)
      BY <1>0, <1>4, ConsentStepKeeps DEF IInv
    <2>2. \A q \in Request :
              Route(q) \in ReportRoutes \cup TodoRoutes \cup NoteRoutes \cup CacheRoutes \cup Mounted =>
                  Passed(q) /\ Scoped(q)
      BY <2>1, RoutesApart
    <2>3. QED
      BY <1>0, <1>4, <2>1, <2>2, ReportsElsewhere, TodosElsewhere, NotesElsewhere,
         CacheElsewhere, DocsElsewhere DEF IInv
  <1>5. CASE CacheStep(r) /\ UNCHANGED <<reports, todos, noteVars, consentVars, docsVars>>
    <2>1. /\ CoreInv' /\ Flows /\ CacheInv' /\ Route(r) \in CacheRoutes
          /\ \A q \in Request : q # r => Passed(q) /\ Scoped(q)
      BY <1>0, <1>5, CacheStepKeeps DEF IInv
    <2>2. \A q \in Request :
              Route(q) \in ReportRoutes \cup TodoRoutes \cup NoteRoutes \cup ConsentRoutes \cup Mounted =>
                  Passed(q) /\ Scoped(q)
      BY <2>1, RoutesApart
    <2>3. QED
      BY <1>0, <1>5, <2>1, <2>2, ReportsElsewhere, TodosElsewhere, NotesElsewhere,
         ConsentsElsewhere, DocsElsewhere DEF IInv
  <1>6. CASE GetDocs(r) /\ UNCHANGED <<reports, todos, noteVars, consentVars, cacheVars>>
    <2>1. /\ CoreInv' /\ Flows /\ DocsInv' /\ Route(r) \in Mounted
          /\ \A q \in Request : q # r => Passed(q)
      BY <1>0, <1>6, GetDocsKeeps DEF IInv
    <2>2. \A q \in Request :
              Route(q) \in ReportRoutes \cup TodoRoutes \cup NoteRoutes \cup ConsentRoutes \cup CacheRoutes =>
                  Passed(q)
      BY <2>1, RoutesApart
    <2>3. QED
      BY <1>0, <1>6, <2>1, <2>2, ReportsElsewhere, TodosElsewhere, NotesElsewhere,
         ConsentsElsewhere, CacheElsewhere DEF IInv
  <1>7. QED
    BY <1>1, <1>2, <1>3, <1>4, <1>5, <1>6 DEF Handler

\* A step behind the requests that leaves them and the trail alone.
LEMMA BackstageKeeps ==
    ASSUME IInv, UNCHANGED req, CoreInv',
           UNCHANGED <<reports, todos, noteVars>>,
           ConsentInv' \/ UNCHANGED consentVars,
           CacheInv' \/ UNCHANGED cacheVars,
           DocsInv' \/ UNCHANGED docsVars
    PROVE  IInv'
  <1>1. Shape /\ Flows /\ \A q \in Request : Passed(q) /\ Scoped(q)
    BY StillFlows DEF IInv, CoreInv, Scoped
  <1>2. QED
    BY <1>1, ReportsElsewhere, TodosElsewhere, NotesElsewhere, ConsentsElsewhere,
       CacheElsewhere, DocsElsewhere DEF IInv

\* Publications, Redis, releases, conversions and the generator keep the invariant.
LEMMA BackgroundKeeps ==
    ASSUME IInv, Background
    PROVE  IInv'
  <1>1. CASE Publish /\ UNCHANGED <<reports, todos, noteVars, cacheVars, docsVars>>
    <2>1. CoreInv' /\ ConsentInv' /\ UNCHANGED req
      BY <1>1, PublishKeeps DEF IInv
    <2>2. QED
      BY <1>1, <2>1, BackstageKeeps
  <1>2. CASE /\ \/ \E f \in filling : WriteCache(f)
                \/ \E r \in evicting : Evict(r)
                \/ Expire
             /\ UNCHANGED <<reports, todos, noteVars, consentVars, docsVars>>
    <2>1. CacheInv' /\ UNCHANGED <<req, trace, auditVars>>
      BY <1>2, RedisKeeps DEF IInv, requestVars
    <2>2. CoreInv'
      BY <2>1, StillCore DEF IInv
    <2>3. QED
      BY <1>2, <2>1, <2>2, BackstageKeeps
  <1>3. CASE /\ Release \/ Generate \/ \E m \in Mount : Converted(m)
             /\ UNCHANGED <<reports, todos, noteVars, consentVars, cacheVars>>
    <2>1. CASE Generate
      <3>1. DocsInv' /\ UNCHANGED <<req, trace, auditVars>>
        BY <2>1, GenerateKeeps DEF IInv
      <3>2. CoreInv'
        BY <3>1, StillCore DEF IInv
      <3>3. QED
        BY <1>3, <3>1, <3>2, BackstageKeeps
    <2>2. CASE Release \/ \E m \in Mount : Converted(m)
      <3>1. CoreInv' /\ Flows /\ \A q \in Request : Route(q) \notin Mounted => req'[q] = req[q]
        BY <2>2, ReleaseCore, ConvertedCore DEF IInv
      <3>2. DocsInv' /\ Shape
        BY <2>2, ReleaseKeeps, ConvertedKeeps DEF IInv, CoreInv
      <3>3. \A q \in Request :
                Route(q) \in ReportRoutes \cup TodoRoutes \cup NoteRoutes \cup ConsentRoutes \cup CacheRoutes =>
                    Passed(q)
        BY <3>1, RoutesApart DEF Passed
      <3>4. QED
        BY <1>3, <3>1, <3>2, <3>3, ReportsElsewhere, TodosElsewhere, NotesElsewhere,
           ConsentsElsewhere, CacheElsewhere DEF IInv
    <2>3. QED
      BY <1>3, <2>1, <2>2
  <1>4. QED
    BY <1>1, <1>2, <1>3 DEF Background

\* So does a step that changes nothing.
LEMMA StutterKeeps ==
    ASSUME IInv, UNCHANGED apiVars
    PROVE  IInv'
  <1>1. UNCHANGED <<req, trace, auditVars, reports, todos, noteVars, consentVars, cacheVars, docsVars>>
    BY DEF apiVars, requestVars
  <1>2. CoreInv'
    BY <1>1, StillCore DEF IInv
  <1>3. QED
    BY <1>1, <1>2, BackstageKeeps

\* Every step keeps the invariant.
LEMMA StepKeeps ==
    ASSUME IInv, [Next]_apiVars
    PROVE  IInv'
  <1>1. CASE Audit
    <2>1. CoreInv' /\ UNCHANGED <<req, reports, todos, noteVars, consentVars, cacheVars, docsVars>>
      BY <1>1, AuditCore DEF IInv, Audit, requestVars
    <2>2. QED
      BY <2>1, BackstageKeeps
  <1>2. QED
    BY <1>1, PipelineKeeps, HandlerKeeps, BackgroundKeeps, StutterKeeps DEF Next

\* What every reachable state of the API satisfies: the pipeline's part, and each
\* feature's on top of it.
THEOREM Invariant == Spec => []IInv
  <1>1. Init => IInv
    BY InitInv
  <1>2. IInv /\ [Next]_apiVars => IInv'
    BY StepKeeps
  <1>3. QED
    BY <1>1, <1>2, PTL DEF Spec


-----------------------------------------------------------------------------
(* What it says of the properties. *)

\* What a request was told it did stays done, whatever the others do and
\* however their statements interleave with its own: a removed report or todo
\* does not come back, a patched field is not reset, a notification is read
\* from then on unless its id was guessed before it had a row, and one that was
\* pushed says how the push ended.
THEOREM AcknowledgedStandsHolds == Spec => []AcknowledgedStands
  <1>1. IInv => AcknowledgedStands
    <2> SUFFICES ASSUME IInv PROVE AcknowledgedStands
      OBVIOUS
    <2>0. Shape
      BY DEF IInv, CoreInv
    <2>1. RemovedStaysHidden
      <3> SUFFICES ASSUME NEW r \in Request, Route(r) = "removeReport", Done(r)
                   PROVE  ReportRow(Target(r), FALSE) = NoRow
        BY DEF RemovedStaysHidden
      <3>1. Hidden(Target(r))
        BY DEF IInv, ReportInv, ReportRequestInv
      <3>2. QED
        BY <3>1 DEF Hidden, ReportRow
    <2>2. PatchKept
      BY DEF PatchKept, IInv, ReportInv, ReportRequestInv, PatchedBy
    <2>3. TodoGone
      BY DEF TodoGone, IInv, TodoInv, TodoRequestInv
    <2>4. ReadStays
      BY DEF ReadStays, IInv, NoteInv, NoteRequestInv, Read
    <2>5. NotifiedSettled
      BY DEF NotifiedSettled, IInv, NoteInv, NoteRequestInv
    <2>6. QED
      BY <2>1, <2>2, <2>3, <2>4, <2>5 DEF AcknowledgedStands
  <1>2. QED
    BY <1>1, Invariant, PTL

\* Whose rows an answer shows, route by route.
LEMMA ShownOf ==
    ASSUME NEW r
    PROVE  /\ Route(r) = "listTodos" =>
                Shown(r) = {todos[i].user : i \in {j \in req[r].answer.data.ids : todos[j] # NoRow}}
           /\ Route(r) \in {"listNotes", "unreadCount"} =>
                Shown(r) = {notes[i].user : i \in req[r].answer.data.ids}
           /\ Route(r) = "listConsents" =>
                Shown(r) = {c.user : c \in {d \in consents : d.id \in req[r].answer.data.ids}}
           /\ Route(r) \notin {"listTodos", "listNotes", "unreadCount", "listConsents"} =>
                Shown(r) = IF "user" \in DOMAIN req[r].answer.data THEN {req[r].answer.data.user} ELSE {}
  BY DEF Shown

\* An answer shows rows of its caller.
LEMMA ShownOwn ==
    ASSUME IInv, NEW r \in Request, NEW u \in Shown(r)
    PROVE  u = Caller(r)
  <1> DEFINE data == req[r].answer.data
  <1>0. /\ AnswerInv(r) /\ Nothing.ids = {} /\ "user" \notin DOMAIN Nothing
        /\ NoAnswer.data = Nothing
    BY DEF IInv, CoreInv, Nothing, NoAnswer
  <1>1. CASE ~Done(r)
    <2>1. data = Nothing
      <3>1. CASE ~Answered(r)
        BY <1>0, <3>1 DEF AnswerInv
      <3>2. CASE Answered(r)
        <4>1. req[r].answer # Success(data)
          BY <1>1, <3>2 DEF Done, Succeeded, Success
        <4>2. QED
          BY <1>0, <3>2, <4>1 DEF AnswerInv, Refusal
      <3>3. QED
        BY <3>1, <3>2
    <2>2. Shown(r) = {}
      BY <1>0, <2>1, ShownOf
    <2>3. QED
      BY <2>2
  <1>2. CASE Done(r)
    <2>1. CASE Route(r) = "listTodos"
      <3>1. PICK i \in data.ids : todos[i] # NoRow /\ u = todos[i].user
        BY <2>1, ShownOf
      <3>2. i \in Id /\ OwnerOf(i) = Caller(r)
        BY <1>2, <2>1 DEF IInv, TodoInv, TodoRequestInv
      <3>3. QED
        BY <3>1, <3>2 DEF IInv, TodoInv, TodoRowInv
    <2>2. CASE Route(r) \in {"listNotes", "unreadCount"}
      <3>1. PICK i \in data.ids : u = notes[i].user
        BY <2>2, ShownOf
      <3>2. i \in Id /\ notes[i] # NoRow /\ OwnerOf(i) = Caller(r)
        BY <1>2, <2>2 DEF IInv, NoteInv, NoteRequestInv
      <3>3. QED
        BY <3>1, <3>2 DEF IInv, NoteInv, NoteRowInv
    <2>3. CASE Route(r) = "listConsents"
      <3>1. PICK c \in consents : c.id \in data.ids /\ u = c.user
        BY <2>3, ShownOf
      <3>2. Caller(c.id) = Caller(r)
        BY <1>2, <2>3, <3>1 DEF IInv, ConsentInv, ConsentRequestInv
      <3>3. c = NewConsent(c.id, c.at)
        BY DEF IInv, ConsentInv, StampInv, Stamped
      <3>4. NewConsent(c.id, c.at).user = Caller(c.id)
        BY DEF NewConsent
      <3>5. QED
        BY <3>1, <3>2, <3>3, <3>4
    <2>4. CASE Route(r) \notin {"listTodos", "listNotes", "unreadCount", "listConsents"}
      <3>1. "user" \in DOMAIN data /\ u = data.user
        BY <2>4, ShownOf
      <3>2. Own(r, data)
        BY <1>0, <1>2 DEF AnswerInv, Refusal, Done, Own
      <3>3. QED
        BY <3>1, <3>2 DEF Own
    <2>5. QED
      BY <2>1, <2>2, <2>3, <2>4
  <1>3. QED
    BY <1>1, <1>2

\* An answer is true of what happened.  A request that was refused, or told
\* its row is not there, has changed nothing: only an internal error may hide
\* a change.  Nobody changes a row of someone else, or is shown one.  The
\* status is the one of the code, except for a throttled request.
THEOREM AnswersTrueHolds == Spec => []AnswersTrue
  <1>1. IInv => AnswersTrue
    <2> SUFFICES ASSUME IInv, NEW r \in Request
                 PROVE  LET answer == req[r].answer
                        IN  /\ Failed(answer) /\ answer.code # "INTERNAL_ERROR" =>
                                \A t \in trace : t.by # r
                            /\ \A t \in trace : t.by = r => t.owner = Caller(r)
                            /\ \A u \in Shown(r) : u = Caller(r)
                            /\ answer.code # NoCode /\ answer.status # 429 =>
                                Registry[answer.code] = answer.status
      BY DEF AnswersTrue
    <2> DEFINE answer == req[r].answer
    <2>1. /\ AnswerInv(r) /\ TraceInv
      BY DEF IInv, CoreInv
    <2>2. ASSUME answer.code = NoCode, answer.status \in {0, 200}
          PROVE  ~Failed(answer)
      BY <2>2 DEF Failed
    <2>3. /\ Failed(answer) /\ answer.code # "INTERNAL_ERROR" => \A t \in trace : t.by # r
          /\ answer.code # NoCode /\ answer.status # 429 => Registry[answer.code] = answer.status
      <3>1. CASE ~Answered(r)
        BY <2>1, <2>2, <3>1 DEF AnswerInv, NoAnswer
      <3>2. CASE answer = Success(answer.data)
        BY <2>2, <3>2 DEF Success
      <3>3. CASE Refusal(answer) /\ (answer.code # "INTERNAL_ERROR" => \A t \in trace : t.by # r)
        BY <3>3 DEF Refusal
      <3>4. QED
        BY <2>1, <3>1, <3>2, <3>3 DEF AnswerInv
    <2>4. \A t \in trace : t.by = r => t.owner = Caller(r)
      BY <2>1 DEF TraceInv
    <2>5. QED
      BY <2>3, <2>4, ShownOwn
  <1>2. QED
    BY <1>1, Invariant, PTL

\* The trail tells what happened.  An entry is of a request that succeeded,
\* under its caller's name and about its row.  A request that succeeded on an
\* audited route has one entry, unless it was lost; and a change without an
\* entry is of a request that has not returned yet, or whose process died or
\* lost the reply.
THEOREM AuditAccountedHolds == Spec => []AuditAccounted
  <1>1. IInv => AuditAccounted
    <2> SUFFICES ASSUME IInv PROVE AuditAccounted
      OBVIOUS
    <2>1. ASSUME NEW e \in Trail
          PROVE  /\ Done(e.request)
                 /\ e.actor = Caller(e.request)
                 /\ e.id = IF e.action = "CREATE" THEN e.request ELSE Target(e.request)
                 /\ e.action = Action(Route(e.request))
      BY DEF IInv, CoreInv, EntryInv
    <2>2. ASSUME NEW r \in Request, Done(r), Action(Route(r)) # "none"
          PROVE  Cardinality({e \in Trail : e.request = r}) = 1
      <3>1. Logged(r)
        BY <2>2 DEF IInv, CoreInv
      <3>2. PICK e : {f \in Trail : f.request = r} = {e}
        BY <3>1 DEF Logged
      <3>3. QED
        BY <3>2, FS_Singleton
    <2>3. ASSUME NEW r \in Request, NEW t \in trace, t.by = r, Action(Route(r)) # "none",
                 {e \in Trail : e.request = r} = {}
          PROVE  req[r].pc \in {"reply", "lost"} \/ req[r].answer.code = "INTERNAL_ERROR"
      <3>1. req[r].pc \in {"reply", "answered", "lost"} /\ AnswerInv(r)
        BY <2>3 DEF IInv, CoreInv, TraceInv
      <3>2. ~Done(r)
        BY <2>3 DEF IInv, CoreInv, Logged
      <3>3. CASE Answered(r)
        <4>1. req[r].answer # Success(req[r].answer.data)
          BY <3>2, <3>3 DEF Done, Succeeded, Success
        <4>2. QED
          BY <2>3, <3>1, <3>3, <4>1 DEF AnswerInv
      <3>4. QED
        BY <3>1, <3>3 DEF Answered
    <2>4. QED
      BY <2>1, <2>2, <2>3 DEF AuditAccounted
  <1>2. QED
    BY <1>1, Invariant, PTL

\* A set whose members are equal has one at most.
LEMMA AtMostOne ==
    ASSUME NEW S, \A x, y \in S : x = y
    PROVE  Cardinality(S) <= 1
  <1>1. CASE S = {}
    BY <1>1, FS_EmptySet
  <1>2. CASE S # {}
    <2>1. PICK x : S = {x}
      BY <1>2
    <2>2. QED
      BY <2>1, FS_Singleton
  <1>3. QED
    BY <1>1, <1>2

\* A user's live state is never that of a transition whose answer the user
\* had before asking for another one that was recorded since; there is one
\* live state, it is about a version that exists, and no slug has two current
\* versions.
THEOREM ConsentLiveHolds == Spec => []ConsentLive
  <1>1. IInv => ConsentLive
    <2> SUFFICES ASSUME IInv PROVE ConsentLive
      OBVIOUS
    <2>0. /\ \A c \in consents : c \in Stamped /\ StampInv(c)
          /\ OrderInv /\ DocumentInv
      BY DEF IInv, ConsentInv, Stamped
    <2>1. ASSUME NEW u \in User
          PROVE  /\ Cardinality(LatestConsent(u)) <= 1
                 /\ \A c \in LatestConsent(u), d \in consents :
                        d.user = u => c.id \notin req[d.id].after
      <3>1. ASSUME NEW c \in LatestConsent(u)
            PROVE  /\ c \in consents /\ c.user = u /\ c.at \in Nat
                   /\ \A d \in consents : d.user = u => d.at \in Nat /\ d.at <= c.at
        BY <2>0 DEF LatestConsent, StampInv
      <3>2. \A c, d \in LatestConsent(u) : c = d
        <4> SUFFICES ASSUME NEW c \in LatestConsent(u), NEW d \in LatestConsent(u) PROVE c = d
          OBVIOUS
        <4>1. c.at = d.at
          BY <3>1
        <4>2. QED
          BY <2>0, <3>1, <4>1 DEF OrderInv
      <3>3. ASSUME NEW c \in LatestConsent(u), NEW d \in consents, d.user = u,
                   c.id \in req[d.id].after
            PROVE  FALSE
        <4>1. c.at < d.at
          BY <2>0, <3>1, <3>3 DEF OrderInv
        <4>2. QED
          BY <3>1, <3>3, <4>1
      <3>4. QED
        BY <3>2, <3>3, AtMostOne
    <2>2. \A c \in consents : documents[c.version] # "none"
      BY <2>0 DEF StampInv
    <2>3. Cardinality({v \in Version : documents[v] = "current"}) <= 1
      BY <2>0, AtMostOne DEF DocumentInv
    <2>4. QED
      BY <2>1, <2>2, <2>3 DEF ConsentLive
  <1>2. QED
    BY <1>1, Invariant, PTL

\* The cache holds an old value only while the last write's DEL has not got
\* through, or when the SET that stored it was overtaken by a write.
THEOREM FreshUnlessRacedHolds == Spec => []FreshUnlessRaced
  <1>1. IInv => FreshUnlessRaced
    BY DEF IInv, CacheInv
  <1>2. QED
    BY <1>1, Invariant, PTL

\* The files of the documentation are accounted for: a handwritten one keeps
\* its words, a generated one is remembered or of a run that died, after a run
\* the files are those of what it parsed and the dictionary is not older, a
\* document served to the mobile team holds no operation without a mobile tag,
\* and nobody waits for a conversion that nobody runs.
THEOREM DocsAccountedHolds == Spec => []DocsAccounted
  <1>1. IInv => DocsAccounted
    <2> SUFFICES ASSUME IInv PROVE DocsAccounted
      OBVIOUS
    <2>1. HandwrittenKept /\ MobileScoped /\ WaitersServed
      BY DEF IInv, DocsInv, FilesInv, ServerInv
    <2>2. FilesListed
      BY DEF IInv, DocsInv, EarlierInv, FilesListed
    <2>3. FilesTrue
      <3> SUFFICES ASSUME Settled PROVE
              /\ \A f \in File : files[f].run = gen.run <=> f \in manifest
              /\ \A t \in TagsOf(gen.ops) : Alone(t) => files[FileOf[t]].shows = OpsOf(t)
              /\ files["README.md"].shows = manifest \ {"README.md"}
        BY DEF FilesTrue, Settled, Alone, Fixed
      <3>1. Made = Written(gen.ops) /\ manifest = Written(gen.ops) /\ gen.tags = {}
        BY DEF IInv, DocsInv, MadeInv, GenInv
      <3>2. QED
        BY <3>1 DEF Made, IInv, DocsInv, ShowsInv
    <2>4. EnumsDated
      BY DEF EnumsDated, IInv, DocsInv, DatedInv, Translated, Settled
    <2>5. QED
      BY <2>1, <2>2, <2>3, <2>4 DEF DocsAccounted
  <1>2. QED
    BY <1>1, Invariant, PTL
=============================================================================
