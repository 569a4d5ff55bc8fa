------------------------------- MODULE ApiDocs -------------------------------
(***************************************************************************)
(* The API's documentation.  The server builds the OpenAPI document of its *)
(* release and serves it, whole and filtered for the mobile team, with a   *)
(* Postman collection of each that is converted once.  A developer fetches *)
(* the whole one and generates files from it, beside handwritten ones;     *)
(* a manifest remembers which files were generated.                        *)
(***************************************************************************)
EXTENDS HttpRequest, Sequences

CONSTANTS
    Specs,        \* the releases, one after the other: operations, and the code's enums
    MobileTags,
    FileOf,       \* [tag -> file]: slugify; tags are numbers, in sort order
    Handwritten,  \* files somebody wrote into the directory
    BasicAuth     \* are SWAGGER_BASIC_AUTH_USER and _PASSWORD set?

Mount == {"full", "mobile"}

VARIABLES
    release,      \* the release that is running
    postman,      \* each mount's collection: "none", "converting" or "ready"
    fetched,      \* docs/api/openapi.json
    files,        \* the files of docs/api
    manifest,     \* .generated-manifest.json
    gen           \* the generator: step, the document it parsed, tags to write, run, runs that died

ASSUME SpecsAssumption ==
    /\ Specs # <<>> /\ Specs \in Seq({Specs[n] : n \in DOMAIN Specs})
    /\ \A n \in DOMAIN Specs : \A op \in Specs[n].ops : op.tags \subseteq DOMAIN FileOf

ASSUME DocIds ==
    \A m \in Mixes : \A call \in m.calls : call.route \in Mounted => call.id \in Mount

docsVars == <<release, postman, fetched, files, manifest, gen>>

Tags(op) == op.tags
spec == Specs[release]
Garbage == [ops |-> {}, enums |-> {}, garbage |-> TRUE]   \* no JSON, or no file
NoFile == [run |-> 0, shows |-> {}]
ByHand == [run |-> 0, shows |-> {"prose"}]
File == {FileOf[t] : t \in DOMAIN FileOf} \cup Handwritten
            \cup {"untagged.md", "README.md", "enums.md"}

DocsInit ==
    /\ release = 1
    /\ postman = [m \in Mount |-> "none"]
    /\ fetched = Garbage
    /\ files = [f \in File |-> IF f \in Handwritten THEN ByHand ELSE NoFile]
    /\ manifest = {}
    /\ gen = [pc |-> "idle", ops |-> {}, tags |-> {}, run |-> 0, died |-> {}]

-----------------------------------------------------------------------------
(* The server. *)

\* Only operations with an allowed tag.
FilterDocumentByTags(ops, allowed) == {op \in ops : Tags(op) \cap allowed # {}}

\* Mutant: both mounts are given the one document.
OneDocument(mount) == spec.ops

Document(mount) ==
    IF mount = "full" THEN spec.ops ELSE FilterDocumentByTags(spec.ops, MobileTags)

\* Basic auth: only an admin knows the credentials.
LetIn(r) == BasicAuth => Role[Caller(r)] = "admin"

\* In front of the filter, a failure has a status and no envelope.
Bare(status) == [status |-> status, code |-> NoCode, data |-> Nothing]

\* A plain-text 401.
Deny(r) ==
    /\ req' = [req EXCEPT ![r].pc = "answered", ![r].answer = Bare(401)]
    /\ UNCHANGED <<trace, auditVars, budget>>

GetDocs(r) ==
    /\ req[r].pc = "new" /\ Route(r) \in Mounted
    /\ LET convert == Route(r) = "postman" /\ postman[Target(r)] # "ready"
       IN  IF ~LetIn(r) THEN Deny(r) /\ UNCHANGED postman
           ELSE IF convert
           THEN Goto(r, "waiting", NoRow) /\ postman' = [postman EXCEPT ![Target(r)] = "converting"]
           ELSE Return(r, [ids |-> Document(Target(r))]) /\ UNCHANGED postman
    /\ UNCHANGED <<release, fetched, files, manifest, gen>>

Waits(r, m) == req[r].pc = "waiting" /\ Target(r) = m

\* Mutant: the collection is sent to one of those who wait.
ServedOne(m, result) ==
    [r \in Request |->
        IF Waits(r, m) /\ r = CHOOSE q \in Request : Waits(q, m)
        THEN [req[r] EXCEPT !.pc = "answered", !.answer = result] ELSE req[r]]

Served(m, result) ==
    [r \in Request |->
        IF Waits(r, m) THEN [req[r] EXCEPT !.pc = "answered", !.answer = result] ELSE req[r]]

\* The conversion ends for everyone who waits for it; one that failed is
\* forgotten, and the next request starts another.
Converted(m) ==
    /\ postman[m] = "converting"
    /\ \E ok \in BOOLEAN :
        /\ ok \/ budget.mishap > 0
        /\ budget' = IF ok THEN budget ELSE [budget EXCEPT !.mishap = @ - 1]
        /\ postman' = [postman EXCEPT ![m] = IF ok THEN "ready" ELSE "none"]
        /\ req' = Served(m, IF ok THEN Success([ids |-> Document(m)]) ELSE Bare(500))
    /\ UNCHANGED <<release, fetched, files, manifest, gen, trace, auditVars>>

\* A release: the process is replaced, with the requests it was serving.
Release ==
    /\ release < Len(Specs)
    /\ Spend("docs")
    /\ release' = release + 1
    /\ postman' = [m \in Mount |-> "none"]
    /\ req' = [r \in Request |-> IF req[r].pc = "waiting" THEN [req[r] EXCEPT !.pc = "lost"] ELSE req[r]]
    /\ UNCHANGED <<fetched, files, manifest, gen, trace, auditVars>>

-----------------------------------------------------------------------------
(* The generator. *)

GenStep(pc) == gen.pc = pc /\ UNCHANGED <<release, postman, requestVars, auditVars>>
Write(f, shows) == files' = [files EXCEPT ![f] = [run |-> gen.run, shows |-> shows]]

Tagged(ops) == {op \in ops : Tags(op) # {}}
TagsOf(ops) == UNION {Tags(op) : op \in ops}
OpsOf(tag) == {op \in gen.ops : tag \in Tags(op)}

\* curl of the whole document, which without credentials stores a refusal.
Fetch ==
    /\ gen.pc = "idle"
    /\ Spend("docs")
    /\ fetched' \in {[ops |-> spec.ops, enums |-> spec.enums, garbage |-> FALSE]}
                        \cup (IF BasicAuth THEN {Garbage} ELSE {})
    /\ UNCHANGED <<release, postman, files, manifest, gen, req, trace, auditVars>>

\* A file that is no JSON stops the script before it touches anything.
Parse ==
    /\ gen.pc = "idle" /\ ~fetched.garbage
    /\ Spend("docs")
    /\ gen' = [gen EXCEPT !.pc = "clean", !.run = @ + 1, !.ops = fetched.ops,
                          !.tags = TagsOf(fetched.ops)]
    /\ UNCHANGED <<release, postman, fetched, files, manifest, req, trace, auditVars>>

\* Every file the manifest names is removed.
Clean ==
    /\ GenStep("clean")
    /\ files' = [f \in File |-> IF f \in manifest THEN NoFile ELSE files[f]]
    /\ gen' = [gen EXCEPT !.pc = "tags"]
    /\ UNCHANGED <<fetched, manifest>>

WriteTag ==
    /\ GenStep("tags")
    /\ \E tag \in gen.tags :
        /\ \A other \in gen.tags : tag <= other
        /\ Write(FileOf[tag], OpsOf(tag))
        /\ gen' = [gen EXCEPT !.tags = @ \ {tag}]
    /\ UNCHANGED <<fetched, manifest>>

\* The operations without a tag, if any.
WriteUntagged ==
    /\ GenStep("tags")
    /\ gen.tags = {}
    /\ IF gen.ops = Tagged(gen.ops) THEN UNCHANGED files
       ELSE Write("untagged.md", gen.ops \ Tagged(gen.ops))
    /\ gen' = [gen EXCEPT !.pc = "readme"]
    /\ UNCHANGED <<fetched, manifest>>

\* Mutant: the file of the untagged operations is not remembered.
WrittenTagged(ops) ==
    {FileOf[t] : t \in TagsOf(ops)} \cup {"README.md", "enums.md"}

\* The files of a run over `ops`.
Written(ops) ==
    {FileOf[t] : t \in TagsOf(ops)} \cup {"README.md", "enums.md"}
        \cup (IF \E op \in ops : Tags(op) = {} THEN {"untagged.md"} ELSE {})

\* The index of what was written.
WriteReadme ==
    /\ GenStep("readme")
    /\ Write("README.md", Written(gen.ops) \ {"README.md", "enums.md"})
    /\ gen' = [gen EXCEPT !.pc = "enums"]
    /\ UNCHANGED <<fetched, manifest>>

\* The TypeScript enum that has the values of a Postgres one takes it as an
\* alias; of several, the last that was found.
Twin(e, enums) ==
    LET twins == {t \in enums : t.kind = "ts" /\ t.values = e.values}
    IN  IF e.kind = "ts" \/ twins = {} THEN e ELSE CHOOSE t \in twins : \A o \in twins : o.at <= t.at

Dictionary(enums) == {[entry |-> Twin(e, enums).at, name |-> e.at] : e \in enums}

\* The dictionary, of the enums of the code as it is now.
WriteEnums ==
    /\ GenStep("enums")
    /\ Write("enums.md", Dictionary(spec.enums))
    /\ gen' = [gen EXCEPT !.pc = "index"]
    /\ UNCHANGED <<fetched, manifest>>

\* The README is read again and gets a line for the dictionary.
IndexEnums ==
    /\ GenStep("index")
    /\ Write("README.md", files["README.md"].shows \cup {"enums.md"})
    /\ gen' = [gen EXCEPT !.pc = "manifest"]
    /\ UNCHANGED <<fetched, manifest>>

WriteManifest ==
    /\ GenStep("manifest")
    /\ manifest' = Written(gen.ops)
    /\ gen' = [gen EXCEPT !.pc = "idle"]
    /\ UNCHANGED <<fetched, files>>

\* The script is interrupted, or a write fails.
Interrupt ==
    /\ gen.pc # "idle"
    /\ Spend("mishap")
    /\ gen' = [gen EXCEPT !.pc = "idle", !.tags = {}, !.died = @ \cup {gen.run}]
    /\ UNCHANGED <<release, postman, fetched, files, manifest, req, trace, auditVars>>

Generate ==
    \/ Fetch \/ Parse \/ Clean \/ WriteTag \/ WriteUntagged \/ WriteReadme
    \/ WriteEnums \/ IndexEnums \/ WriteManifest \/ Interrupt

-----------------------------------------------------------------------------

\* A handwritten file keeps its words unless a tag or the generator takes its name.
HandwrittenKept ==
    \A f \in Handwritten \ ({FileOf[t] : t \in DOMAIN FileOf} \cup {"untagged.md", "README.md", "enums.md"}) :
        files[f] = ByHand

\* A generated file is one the manifest names, so that the next run removes
\* it, or of the run under way, or of one that died.
FilesListed ==
    \A f \in File :
        files[f].run > 0 =>
            \/ f \in manifest
            \/ files[f].run \in gen.died
            \/ gen.pc # "idle" /\ files[f].run = gen.run

\* After a run and until the next, the files are those of what it parsed, and
\* unless two share a name, each shows what it is named for; the index shows
\* all the others.
FilesTrue ==
    gen.pc = "idle" /\ gen.run > 0 /\ gen.run \notin gen.died =>
        /\ \A f \in File : files[f].run = gen.run <=> f \in manifest
        /\ \A t \in TagsOf(gen.ops) :
            (\A u \in TagsOf(gen.ops) \ {t} : FileOf[u] # FileOf[t]) /\ FileOf[t] \notin {"untagged.md", "README.md", "enums.md"}
                => files[FileOf[t]].shows = OpsOf(t)
        /\ files["README.md"].shows = manifest \ {"README.md"}

\* A mobile document that was served holds no operation without a mobile tag.
MobileScoped ==
    \A r \in Request :
        Route(r) \in Mounted /\ Done(r) /\ Target(r) = "mobile" =>
            \A op \in req[r].answer.data.ids : Tags(op) \cap MobileTags # {}

\* Who waits for a collection waits for a conversion that is under way.
WaitersServed ==
    \A r \in Request : req[r].pc = "waiting" => postman[Target(r)] = "converting"

\* The document and the code are read at different times: after a run the
\* dictionary is that of the parsed document's release, or of a later one.
EnumsDated ==
    gen.pc = "idle" /\ gen.run > 0 /\ gen.run \notin gen.died =>
        \E n \in 1..release :
            /\ gen.ops = Specs[n].ops
            /\ \E k \in n..release : files["enums.md"].shows = Dictionary(Specs[k].enums)

DocsAccounted ==
    HandwrittenKept /\ FilesListed /\ FilesTrue /\ EnumsDated /\ MobileScoped /\ WaitersServed
==============================================================================
