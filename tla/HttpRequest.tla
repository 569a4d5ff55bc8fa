---------------------------- MODULE HttpRequest ----------------------------
(***************************************************************************)
(* A request on its way through the API: the throttler, the JWT guard and  *)
(* the route's own guard, the pipes, the handler (one action of a          *)
(* component's module per await), then the interceptors on the way out, or *)
(* the exception filter.  A request may be in any process; a process may   *)
(* die, and a call of the database or of Redis may fail.                   *)
(***************************************************************************)
EXTENDS ErrorEnvelope, AuditTrail

CONSTANTS
    Request,
    Role,      \* each user's role; "gone" when the token names no row
    Existing,  \* ids of the rows there are at the start, in any table
    Owner,     \* the user whose rows they are
    Mixes      \* the requests to consider together

User == DOMAIN Role

\* What bounds a mix: calls that publish a legal document, releases and runs
\* of the docs generator, and mishaps: requests turned away, failures, deaths.
Budgets == {"publish", "docs", "mishap"}

\* A mix: what the requests ask for, and the budgets.
ASSUME MixAssumption ==
    \A m \in Mixes :
        /\ \A call \in m.calls : {"route", "user", "id", "patch"} = DOMAIN call /\ call.user \in User
        /\ \A b \in Budgets : m[b] \in Nat

VARIABLES
    req,      \* each request: what it asks, where it is, what it holds, its answer
    trace,    \* history: whose rows each request changed
    budget    \* what may still go wrong

requestVars == <<req, trace, budget>>

Nobody == "nobody"
NoRow == [row |-> Nobody]
Id == Existing \cup Request   \* a row a request creates has the request's id
Public == {"listDocuments", "findDocument"}
AdminOnly == {"createReport", "listReports", "findReport", "updateReport", "removeReport"}
Internal == {"notify"}                    \* an event, no request
Mounted == {"openapi", "postman"}         \* in front of the guards

RequestInit(mix) ==
    /\ \E call \in [Request -> mix.calls] :
            req = [r \in Request |-> [call |-> call[r], pc |-> "new", row |-> NoRow,
                                      answer |-> NoAnswer, after |-> {}]]
    /\ trace = {}
    /\ budget = [b \in Budgets |-> mix[b]]

\* Ids are unique: a UUID of a bug report's, a serial of other rows.  A serial can
\* be guessed, so that a call may name a row that is still to come.
ASSUME IdAssumption == Existing \cap Request = {} /\ Nobody \notin Request

Route(r) == req[r].call.route
Target(r) == req[r].call.id
Caller(r) == req[r].call.user
At(r, pc, routes) == req[r].pc = pc /\ Route(r) \in routes
Answered(r) == req[r].pc = "answered"
Done(r) == Answered(r) /\ Succeeded(req[r].answer)

Spend(b) == budget[b] > 0 /\ budget' = [budget EXCEPT ![b] = @ - 1]

-----------------------------------------------------------------------------
(* How a step of a handler ends. *)

\* It awaits the next call, holding `row`.
Goto(r, pc, row) ==
    /\ req' = [req EXCEPT ![r].pc = pc, ![r].row = row]
    /\ UNCHANGED <<trace, auditVars, budget>>

\* A statement changed rows of `owners`; its reply is under way.
Wrote(r, row, owners) ==
    /\ req' = [req EXCEPT ![r].pc = "reply", ![r].row = row]
    /\ trace' = trace \cup {[by |-> r, owner |-> u] : u \in owners}
    /\ UNCHANGED <<auditVars, budget>>

\* It returns: the audit entry sets out, the envelope is sent.
Return(r, row) ==
    /\ req' = [req EXCEPT ![r].pc = "answered", ![r].row = NoRow, ![r].answer = Success(row)]
    /\ auditing' = auditing \cup Entries(r, req[r].call, row)
    /\ UNCHANGED <<trace, logs, lostLogs, budget>>

\* It throws: the filter answers.
Throw(r, exception) ==
    /\ req' = [req EXCEPT ![r].pc = "answered", ![r].row = NoRow, ![r].answer = Failure(exception)]
    /\ UNCHANGED <<trace, auditVars, budget>>

-----------------------------------------------------------------------------
(* On the way in. *)

\* ThrottlerGuard, or a pipe that finds the input malformed.
Reject(r) ==
    /\ req[r].pc = "new"
    /\ Route(r) \notin Internal \cup Mounted
    /\ Spend("mishap")
    /\ \E status \in {429, 400} :
            req' = [req EXCEPT ![r].pc = "answered", ![r].answer = Failure(Http(status))]
    /\ UNCHANGED <<trace, auditVars>>

\* JwtAuthGuard: the strategy loads the token's user on every request.
Authenticates(r) == Route(r) \in Public \cup Internal \/ Role[Caller(r)] # "gone"

\* ProdAdminGuard.
Authorizes(r) == Route(r) \in AdminOnly => Role[Caller(r)] = "admin"

Admit(r) ==
    /\ req[r].pc = "new"
    /\ Route(r) \notin Mounted
    /\ IF ~Authenticates(r) THEN Throw(r, Http(401))
       ELSE IF ~Authorizes(r) THEN Throw(r, Domain("FORBIDDEN_ADMIN_ONLY"))
       ELSE /\ req' = [req EXCEPT ![r].pc = "handler", ![r].after = {q \in Request : Answered(q)}]
            /\ UNCHANGED <<trace, auditVars, budget>>

-----------------------------------------------------------------------------
(* On the way out. *)

\* The reply to the last statement of a handler arrives.
Reply(r) == req[r].pc = "reply" /\ Return(r, req[r].row)

Pending(r) == req[r].pc \notin {"new", "answered", "lost"}

\* A call fails; where it changed something, only its reply is lost.
Fault(r) ==
    /\ Pending(r)
    /\ Route(r) \notin Mounted
    /\ Spend("mishap")
    /\ req' = [req EXCEPT ![r].pc = "answered", ![r].row = NoRow, ![r].answer = Failure(Unexpected)]
    /\ UNCHANGED <<trace, auditVars>>

\* The request's process dies.
Die(r) ==
    /\ Pending(r)
    /\ Spend("mishap")
    /\ req' = [req EXCEPT ![r].pc = "lost", ![r].row = NoRow]
    /\ UNCHANGED <<trace, auditVars>>
=============================================================================
