----------------------------- MODULE AuditTrail -----------------------------
(***************************************************************************)
(* The audit trail of the routes marked @Audit.  The interceptor writes an *)
(* entry when the handler has returned, out of band: the request does not  *)
(* wait for it, and an insert that fails is logged and forgotten.          *)
(***************************************************************************)
EXTENDS Naturals

VARIABLES
    auditing,   \* entries on their way to audit_logs
    logs,       \* rows of audit_logs
    lostLogs    \* history: entries whose insert failed or whose process died

auditVars == <<auditing, logs, lostLogs>>

\* What a route's @Audit says; every DELETE is logged as a soft one.
Action(route) ==
    CASE route \in {"createReport", "createTodo"} -> "CREATE"
      [] route = "updateReport" -> "UPDATE"
      [] route = "removeReport" -> "SOFT_DELETE"
      [] OTHER -> "none"

\* loadBefore is given the arguments of the execution context, the request
\* first, and looks the request up as an id: it fails, and a snapshot that
\* fails to load is left out.
LoadBefore(route) == "none"

\* Mutant: the entry is about the id of the path, not the returned row's.
EntriesOfPath(request, call, row) ==
    IF Action(call.route) = "none" \/ "id" \notin DOMAIN row THEN {}
    ELSE {[request |-> request, actor |-> call.user, action |-> Action(call.route),
           id |-> call.id, before |-> LoadBefore(call.route), after |-> row]}

\* The entry of a request whose handler returned `row`, if it has an id.
Entries(request, call, row) ==
    IF Action(call.route) = "none" \/ "id" \notin DOMAIN row THEN {}
    ELSE {[request |-> request, actor |-> call.user, action |-> Action(call.route),
           id |-> row.id, before |-> LoadBefore(call.route), after |-> row]}

AuditInit == auditing = {} /\ logs = {} /\ lostLogs = {}

\* The sink inserts the row.
LogChange(e) ==
    /\ e \in auditing
    /\ logs' = logs \cup {e}
    /\ auditing' = auditing \ {e}
    /\ UNCHANGED lostLogs

\* The insert fails, or the process dies before it.
LoseChange(e) ==
    /\ e \in auditing
    /\ lostLogs' = lostLogs \cup {e}
    /\ auditing' = auditing \ {e}
    /\ UNCHANGED logs

Trail == auditing \cup logs \cup lostLogs
=============================================================================
