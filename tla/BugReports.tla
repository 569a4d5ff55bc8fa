----------------------------- MODULE BugReports -----------------------------
(***************************************************************************)
(* The admins' bug reports.  Every handler but the creation reads the row  *)
(* first and acts on it in a second statement, which selects by id alone.  *)
(***************************************************************************)
EXTENDS HttpRequest

CONSTANT AttachmentsEnabled   \* BUG_REPORT_ATTACHMENTS_ENABLED

VARIABLE reports              \* the table, by id

Field == {"title", "status"}  \* two columns a patch may set

\* A row: is it active, and who has set each field.
NewReport(id) == [id |-> id, active |-> TRUE, by |-> [f \in Field |-> Nobody]]

ASSUME ReportIds ==
    \A m \in Mixes : \A call \in m.calls :
        call.route \in {"findReport", "updateReport", "removeReport"} => call.id \in Id

ReportsInit == reports = [i \in Id |-> IF i \in Existing THEN NewReport(i) ELSE NoRow]

ReportRow(id, includeInactive) ==
    IF reports[id] # NoRow /\ (includeInactive \/ reports[id].active) THEN reports[id] ELSE NoRow

CreateReport(r) ==
    /\ At(r, "handler", {"createReport"})
    /\ reports' = [reports EXCEPT ![r] = NewReport(r)]
    /\ Wrote(r, NewReport(r), {Caller(r)})

\* A query may ask for the inactive ones too; a removal always does.
IncludesInactive(r) == Route(r) = "removeReport" \/ "inactive" \in req[r].call.patch

\* The total is a statement of its own and is not kept.
ListReports(r) ==
    /\ At(r, "handler", {"listReports"})
    /\ Return(r, [ids |-> {i \in Id : ReportRow(i, IncludesInactive(r)) # NoRow}])
    /\ UNCHANGED reports

\* findById of every handler; a read goes on to the attachments.
FindReport(r) ==
    /\ At(r, "handler", {"findReport", "updateReport", "removeReport"})
    /\ LET row == ReportRow(Target(r), IncludesInactive(r))
           readOnly == \/ Route(r) = "findReport" /\ ~AttachmentsEnabled
                       \/ Route(r) = "updateReport" /\ req[r].call.patch = {}
       IN  IF row = NoRow THEN Throw(r, Domain("BUG_REPORT_NOT_FOUND"))
           ELSE IF readOnly THEN Return(r, row)
           ELSE Goto(r, "found", row)
    /\ UNCHANGED reports

AddAttachments(r) ==
    /\ At(r, "found", {"findReport"})
    /\ Return(r, req[r].row)
    /\ UNCHANGED reports

\* Mutant: the row that was read is written back with the patch.
PatchedCopy(r) ==
    [req[r].row EXCEPT !.by = [f \in Field |-> IF f \in req[r].call.patch THEN r ELSE @[f]]]

\* The patch holds the given fields only.
Patched(r) ==
    [reports[Target(r)] EXCEPT !.by = [f \in Field |-> IF f \in req[r].call.patch THEN r ELSE @[f]]]

UpdateReport(r) ==
    /\ At(r, "found", {"updateReport"})
    /\ IF reports[Target(r)] = NoRow
       THEN Throw(r, Domain("BUG_REPORT_NOT_FOUND")) /\ UNCHANGED reports
       ELSE /\ reports' = [reports EXCEPT ![Target(r)] = Patched(r)]
            /\ Wrote(r, Patched(r), {Caller(r)})

\* The answer, and with it the entry's snapshot, is the row as it was found.
HideReport(r) ==
    /\ At(r, "found", {"removeReport"})
    /\ "force" \notin req[r].call.patch
    /\ IF ~req[r].row.active
       THEN Return(r, req[r].row) /\ UNCHANGED reports
       ELSE /\ reports' = IF reports[Target(r)] = NoRow THEN reports
                          ELSE [reports EXCEPT ![Target(r)].active = FALSE]
            /\ Wrote(r, req[r].row, {Caller(r)})

DeleteReport(r) ==
    /\ At(r, "found", {"removeReport"})
    /\ "force" \in req[r].call.patch
    /\ reports' = [reports EXCEPT ![Target(r)] = NoRow]
    /\ Wrote(r, req[r].row, {Caller(r)})

ReportStep(r) ==
    \/ CreateReport(r) \/ ListReports(r) \/ FindReport(r) \/ AddAttachments(r)
    \/ UpdateReport(r) \/ HideReport(r) \/ DeleteReport(r)

-----------------------------------------------------------------------------

\* A report whose removal was answered is hidden or gone from then on.
RemovedStaysHidden ==
    \A r \in Request :
        Route(r) = "removeReport" /\ Done(r) => ReportRow(Target(r), FALSE) = NoRow

\* A field that an answered update set is not set back by another one.
PatchKept ==
    \A r \in Request : \A f \in req[r].call.patch \cap Field :
        /\ Route(r) = "updateReport" /\ Done(r)
        /\ reports[Target(r)] # NoRow
        => reports[Target(r)].by[f] # Nobody
=============================================================================
