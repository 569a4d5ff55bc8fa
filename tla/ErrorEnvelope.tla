---------------------------- MODULE ErrorEnvelope ----------------------------
(***************************************************************************)
(* What a caller is told.  Every failure becomes the envelope of one       *)
(* filter: a code of the catalogs and an HTTP status.  An exception is a   *)
(* DomainException, which carries a code, an exception of the framework,   *)
(* which carries a status, or anything else.  Messages are left out.       *)
(***************************************************************************)
EXTENDS Naturals

\* The codes with their status, catalog by catalog.
CommonErrors ==
    ({"VALIDATION_FAILED", "BUSINESS_RULE_VIOLATION"} \X {400})
    \cup ({"UNAUTHORIZED"} \X {401})
    \cup ({"FORBIDDEN", "FORBIDDEN_ADMIN_ONLY", "FORBIDDEN_MISSING_PERMISSION"} \X {403})
    \cup ({"NOT_FOUND"} \X {404})
    \cup ({"CONFLICT", "INVALID_STATE_TRANSITION"} \X {409})
    \cup ({"RATE_LIMITED"} \X {429})
    \cup ({"INTERNAL_ERROR"} \X {500})

FeatureErrors ==
    ({"STORAGE_FILENAME_REQUIRED", "STORAGE_FILENAME_INVALID",
      "MEDIA_FILE_SIZE_EXCEEDS_LIMIT"} \X {400})
    \cup ({"AUTH_INVALID_CREDENTIALS"} \X {401})
    \cup ({"USER_NOT_FOUND", "MEDIA_ASSET_NOT_FOUND", "LEGAL_DOCUMENT_NOT_FOUND",
            "LEGAL_DOCUMENT_NOT_FOUND_BY_SLUG", "BUG_REPORT_NOT_FOUND",
            "NOTIFICATION_NOT_FOUND"} \X {404})
    \cup ({"AUTH_EMAIL_ALREADY_IN_USE"} \X {409})

Errors == CommonErrors \cup FeatureErrors

\* The catalogs share no code, or the process does not start.
Registry == [code \in {e[1] : e \in Errors} |-> (CHOOSE e \in Errors : e[1] = code)[2]]

ResolveErrorDefinition(code) ==
    IF code \in DOMAIN Registry THEN code ELSE "INTERNAL_ERROR"

Domain(code) == [kind |-> "domain", code |-> ResolveErrorDefinition(code)]
Http(status) == [kind |-> "http", status |-> status]
Unexpected == [kind |-> "unexpected"]

\* The code of a framework exception, by its status.
CodeForStatus(status) ==
    CASE status = 400 -> "VALIDATION_FAILED"
      [] status = 401 -> "UNAUTHORIZED"
      [] status = 403 -> "FORBIDDEN"
      [] status = 404 -> "NOT_FOUND"
      [] status = 409 -> "CONFLICT"
      [] OTHER -> "INTERNAL_ERROR"

NoCode == "NONE"
Nothing == [ids |-> {}]

Failure(exception) ==
    CASE exception.kind = "domain" ->
            [status |-> Registry[exception.code], code |-> exception.code, data |-> Nothing]
      [] exception.kind = "http" ->
            [status |-> exception.status, code |-> CodeForStatus(exception.status), data |-> Nothing]
      [] OTHER ->
            [status |-> 500, code |-> "INTERNAL_ERROR", data |-> Nothing]

\* The envelope of a result; a 201 or a 204 is a success like a 200.
Success(data) == [status |-> 200, code |-> NoCode, data |-> data]
NoAnswer == [status |-> 0, code |-> NoCode, data |-> Nothing]

Succeeded(answer) == answer.status = 200
Failed(answer) == answer.status >= 400
==============================================================================
