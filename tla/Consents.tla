------------------------------ MODULE Consents ------------------------------
(***************************************************************************)
(* The legal documents, of one slug, and the users' consents to them.  A   *)
(* consent is one row of a history that is only ever appended to; the row  *)
(* with the latest time is the user's state.  Documents are published from *)
(* outside, through two calls of the store.                                *)
(***************************************************************************)
EXTENDS HttpRequest, FiniteSets

CONSTANTS
    Version,
    Seeded     \* the version that is current at the start, if any

VARIABLES
    documents,   \* each version: "none", "old" or "current"
    consents,    \* the history
    clock        \* the database's clock, a tick per statement that reads it

consentVars == <<documents, consents, clock>>

ASSUME VersionIds ==
    \A m \in Mixes : \A call \in m.calls : call.route \in {"accept", "revoke"} => call.id \in Version

ConsentsInit ==
    /\ documents = [v \in Version |-> IF v = Seeded THEN "current" ELSE "none"]
    /\ consents = {}
    /\ clock = 0

\* Mutant: the history is sorted the wrong way round.
OldestConsent(user) ==
    LET rows == {c \in consents : c.user = user}
    IN  {c \in rows : \A d \in rows : d.at >= c.at}

\* The row with the latest time, if any.
LatestConsent(user) ==
    LET rows == {c \in consents : c.user = user}
    IN  {c \in rows : \A d \in rows : d.at <= c.at}

\* The public routes: the current version, or a 404.
ReadDocuments(r) ==
    /\ At(r, "handler", {"listDocuments", "findDocument"})
    /\ LET current == {v \in Version : documents[v] = "current"}
       IN  IF Route(r) = "findDocument" /\ current = {}
           THEN Throw(r, Domain("LEGAL_DOCUMENT_NOT_FOUND_BY_SLUG"))
           ELSE Return(r, [ids |-> current])
    /\ UNCHANGED consentVars

ListConsents(r) ==
    /\ At(r, "handler", {"listConsents"})
    /\ Return(r, [ids |-> {c.id : c \in {d \in consents : d.user = Caller(r)}}])
    /\ UNCHANGED consentVars

\* accept and revoke look the version up, current or not ...
FindVersion(r) ==
    /\ At(r, "handler", {"accept", "revoke"})
    /\ IF documents[Target(r)] = "none"
       THEN Throw(r, Domain("LEGAL_DOCUMENT_NOT_FOUND_BY_SLUG"))
       ELSE Goto(r, "found", NoRow)
    /\ UNCHANGED consentVars

\* A row of the history.
NewConsent(r, at) ==
    [id |-> r, user |-> Caller(r), version |-> Target(r), status |-> Route(r), at |-> at]

\* ... and append a row: its time is read when the insert starts, ...
RecordConsent(r) ==
    /\ At(r, "found", {"accept", "revoke"})
    /\ clock' = clock + 1
    /\ Goto(r, "insert", NewConsent(r, clock + 1))
    /\ UNCHANGED <<documents, consents>>

\* ... and others see it when it commits.
CommitConsent(r) ==
    /\ At(r, "insert", {"accept", "revoke"})
    /\ consents' = consents \cup {req[r].row}
    /\ Wrote(r, req[r].row, {Caller(r)})
    /\ UNCHANGED <<documents, clock>>

ConsentStep(r) ==
    \/ ReadDocuments(r) \/ ListConsents(r)
    \/ FindVersion(r) \/ RecordConsent(r) \/ CommitConsent(r)

\* The unique index of one current version per slug lets the row in.
OneCurrentPerSlug(v, isCurrent) ==
    isCurrent => \A w \in Version \ {v} : documents[w] # "current"

UpsertDocument(v, isCurrent) ==
    /\ Spend("publish")
    /\ OneCurrentPerSlug(v, isCurrent)
    /\ documents' = [documents EXCEPT ![v] = IF isCurrent THEN "current" ELSE "old"]
    /\ UNCHANGED <<consents, clock, req, trace, auditVars>>

ClearOtherCurrents(keep) ==
    /\ Spend("publish")
    /\ documents' = [v \in Version |-> IF v # keep /\ documents[v] = "current" THEN "old"
                                       ELSE documents[v]]
    /\ UNCHANGED <<consents, clock, req, trace, auditVars>>

Publish ==
    \E v \in Version :
        \/ \E isCurrent \in BOOLEAN : UpsertDocument(v, isCurrent)
        \/ ClearOtherCurrents(v)

-----------------------------------------------------------------------------

\* A user's live state is never that of a transition whose answer the user
\* had before asking for another one that was recorded since; there is one
\* live state, it is about a version that exists, and no slug has two current
\* versions.
ConsentLive ==
    /\ \A u \in User :
        LET live == LatestConsent(u)
        IN  /\ Cardinality(live) <= 1
            /\ \A c \in live, d \in consents : d.user = u => c.id \notin req[d.id].after
    /\ \A c \in consents : documents[c.version] # "none"
    /\ Cardinality({v \in Version : documents[v] = "current"}) <= 1
=============================================================================
