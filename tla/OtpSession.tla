----------------------------- MODULE OtpSession -----------------------------
(***************************************************************************)
(* The OTP sessions of AuthService: email verification, e-mail login,      *)
(* phone registration and phone login.  A session lives in Redis under a   *)
(* fresh UUID with a TTL, guarded by a wrong-guess counter under a second  *)
(* key with a TTL of its own.  Every await of an issuing or a verifying    *)
(* handler is a step, so that requests interleave, keys expire between two *)
(* steps, and a request can be lost at any of them.                        *)
(*                                                                         *)
(* One-time codes are abstracted to whether the submitted code is the      *)
(* session's own; the per-identifier rate limits that may refuse to issue  *)
(* a session are the subject of module RateLimit.                          *)
(***************************************************************************)
EXTENDS Naturals, FiniteSets

CONSTANTS
    Token,        \* session tokens (randomUUID: each is minted at most once)
    Request,      \* verify requests that can be in flight at once
    Email, Phone, \* identities; a users row has the one or the other
    MaxAttempts,  \* OTP_MAX_ATTEMPTS
    Ttl,          \* session TTL of each kind, in ticks
    MaxAborts     \* bound on requests lost between two awaits

Account == Email \cup Phone

EmailKind == {"email_verify", "email_login"}
PhoneKind == {"phone_register", "phone_login"}
Kind == EmailKind \cup PhoneKind

\* Both phone flows keep their sessions under one key prefix.
Prefix(k) == IF k \in PhoneKind THEN "phone_session" ELSE k

\* Mutant: the shortest session's TTL for every counter.
CounterTtlShortest == Ttl["phone_login"]

\* maxSessionTtlSeconds(): the TTL given to every wrong-guess counter.
CounterTtl == Ttl["email_verify"]

ASSUME RequestAssumption == IsFiniteSet(Request)
ASSUME MaxAttemptsAssumption == MaxAttempts \in Nat \ {0}
ASSUME MaxAbortsAssumption == MaxAborts \in Nat
\* The defaults are 900, 300 and 180: the counter's TTL is the longest.
ASSUME TtlAssumption ==
    /\ Ttl \in [Kind -> Nat \ {0}]
    /\ \A k \in Kind : Ttl[k] <= Ttl["email_verify"]

VARIABLES
    issue,        \* progress of the handler that issues each session
    session,      \* what is stored under the session's key, NoSession before
    ttl,          \* ticks left on the session key, 0 when the key is absent
    attempts,     \* value of the wrong-guess counter, 0 when the key is absent
    attemptsTtl,  \* ticks left on the counter, 0 when it has no expiry
    req,          \* verify requests
    registered,   \* accounts that have a users row
    verified,     \* accounts whose e-mail is marked verified
    claims,       \* history: DELs of the session key that claimed it
    grants,       \* history: token pairs issued, per session and endpoint
    createdBy,    \* history: which session created which account
    wrong,        \* history: wrong codes compared with the session's own
    aborts        \* history: requests lost between two awaits

issuing == <<issue, session>>
redis == <<ttl, attempts, attemptsTtl>>
db == <<registered, verified>>
history == <<claims, grants, createdBy, wrong, aborts>>
vars == <<issuing, redis, req, db, history>>

NoSession == [kind |-> "none"]
Idle == [pc |-> "idle"]

Session == [kind: Kind, account: Account]
Running ==
    [pc: {"get", "claim", "account", "verify", "grant", "incr", "expire", "burn", "clear"},
     op: Kind,         \* the verify endpoint called
     tok: Token,       \* the session token submitted
     right: BOOLEAN,   \* whether the submitted code is the session's
     n: Nat]           \* what INCR returned

TypeOK ==
    /\ issue \in [Token -> {"none", "store", "enqueue", "answered", "failed"}]
    /\ session \in [Token -> Session \cup {NoSession}]
    /\ ttl \in [Token -> Nat]
    /\ attempts \in [Token -> Nat]
    /\ attemptsTtl \in [Token -> Nat]
    /\ req \in [Request -> Running \cup {Idle}]
    /\ registered \in SUBSET Account
    /\ verified \in SUBSET Account
    /\ claims \in [Token -> Nat]
    /\ grants \in [Token -> [Kind -> Nat]]
    /\ createdBy \in SUBSET (Account \X Token)
    /\ wrong \in [Token -> Nat]
    /\ aborts \in 0..MaxAborts

Init ==
    /\ issue = [t \in Token |-> "none"]
    /\ session = [t \in Token |-> NoSession]
    /\ ttl = [t \in Token |-> 0]
    /\ attempts = [t \in Token |-> 0]
    /\ attemptsTtl = [t \in Token |-> 0]
    /\ req = [r \in Request |-> Idle]
    /\ registered \in SUBSET Account
    /\ verified \in SUBSET (registered \cap Email)
    /\ claims = [t \in Token |-> 0]
    /\ grants = [t \in Token |-> [k \in Kind |-> 0]]
    /\ createdBy = {}
    /\ wrong = [t \in Token |-> 0]
    /\ aborts = 0

-----------------------------------------------------------------------------
(* Accounts that appear by other routes. *)

\* register(): a users row for an e-mail address that has none.
Register(a) ==
    /\ a \in Email \ registered
    /\ registered' = registered \cup {a}
    /\ UNCHANGED <<issuing, redis, req, verified, history>>

-----------------------------------------------------------------------------
(* Issuing a session. *)

\* The handler has its code; what it will store is fixed.
Begin(t, k, a) ==
    /\ issue[t] = "none"
    /\ issue' = [issue EXCEPT ![t] = "store"]
    /\ session' = [session EXCEPT ![t] = [kind |-> k, account |-> a]]
    /\ UNCHANGED <<redis, req, db, history>>

\* A resend, past its rate limit, for an account still to be verified.
ResendEmailVerification(t, a) ==
    /\ a \in (Email \cap registered) \ verified
    /\ Begin(t, "email_verify", a)

\* Password and rate limit passed.
LoginEmail(t, a) ==
    /\ a \in Email \cap registered
    /\ Begin(t, "email_login", a)

\* The number is free, the SMS sent.
RegisterPhone(t, a) ==
    /\ a \in Phone \ registered
    /\ Begin(t, "phone_register", a)

\* Password and rate limit passed, the SMS sent.
LoginPhone(t, a) ==
    /\ a \in Phone \cap registered
    /\ Begin(t, "phone_login", a)

\* SET key EX ttl.  A phone flow answers now, an e-mail flow mails the code.
StoreSession(t) ==
    /\ issue[t] = "store"
    /\ ttl' = [ttl EXCEPT ![t] = Ttl[session[t].kind]]
    /\ issue' = [issue EXCEPT ![t] =
                    IF session[t].kind \in PhoneKind THEN "answered" ELSE "enqueue"]
    /\ UNCHANGED <<session, attempts, attemptsTtl, req, db, history>>

\* The mail is queued; a verification session is handed out even if it is not.
AnswerIssue(t) ==
    /\ issue[t] = "enqueue"
    /\ issue' = [issue EXCEPT ![t] = "answered"]
    /\ UNCHANGED <<session, redis, req, db, history>>

\* A login code that cannot be queued takes its session back.
WithdrawSession(t) ==
    /\ issue[t] = "enqueue"
    /\ session[t].kind = "email_login"
    /\ ttl' = [ttl EXCEPT ![t] = 0]
    /\ issue' = [issue EXCEPT ![t] = "failed"]
    /\ UNCHANGED <<session, attempts, attemptsTtl, req, db, history>>

-----------------------------------------------------------------------------
(* Verifying a code: one action per await of verifyEmail,                  *)
(* verifyEmailLogin, verifyPhoneRegister and verifyPhoneLogin.             *)

At(r, pc) == req[r].pc = pc
Goto(r, pc) == req' = [req EXCEPT ![r].pc = pc]
End(r) == req' = [req EXCEPT ![r] = Idle]

\* A request carries a token it was handed, or one that has no session.
Receive(r, k, t, right) ==
    /\ At(r, "idle")
    /\ issue[t] \in {"answered", "failed"}
    /\ req' = [req EXCEPT ![r] =
                 [pc |-> "get", op |-> k, tok |-> t, right |-> right, n |-> 0]]
    /\ UNCHANGED <<issuing, redis, db, history>>

\* The session a GET under the endpoint's own prefix finds.
Found(r) ==
    /\ ttl[req[r].tok] > 0
    /\ Prefix(session[req[r].tok].kind) = Prefix(req[r].op)

\* Mutant: the key prefix is taken for the type check.
TypeUnchecked(r) == TRUE

\* The type check that follows the GET.
TypeMatches(r) == session[req[r].tok].kind = req[r].op

\* GET, type check and comparison: nothing is awaited between them.
ReadSession(r) ==
    /\ At(r, "get")
    /\ \/ /\ ~(Found(r) /\ TypeMatches(r))
          /\ End(r)
          /\ UNCHANGED wrong
       \/ /\ Found(r) /\ TypeMatches(r) /\ req[r].right
          /\ Goto(r, "claim")
          /\ UNCHANGED wrong
       \/ /\ Found(r) /\ TypeMatches(r) /\ ~req[r].right
          /\ Goto(r, "incr")
          /\ wrong' = [wrong EXCEPT ![req[r].tok] = @ + 1]
    /\ UNCHANGED <<issuing, redis, db, claims, grants, createdBy, aborts>>

\* Mutant: the result of the DEL is not looked at.
ClaimUnchecked(r) ==
    /\ At(r, "claim")
    /\ ttl' = [ttl EXCEPT ![req[r].tok] = 0]
    /\ claims' = [claims EXCEPT ![req[r].tok] = @ + 1]
    /\ Goto(r, "account")
    /\ UNCHANGED <<issuing, attempts, attemptsTtl, db,
                   grants, createdBy, wrong, aborts>>

\* DEL of the session key: the request that removed it owns the session.
ClaimSession(r) ==
    /\ At(r, "claim")
    /\ LET t == req[r].tok IN
         \/ /\ ttl[t] > 0
            /\ ttl' = [ttl EXCEPT ![t] = 0]
            /\ claims' = [claims EXCEPT ![t] = @ + 1]
            /\ Goto(r, "account")
         \/ /\ ttl[t] = 0
            /\ End(r)
            /\ UNCHANGED <<ttl, claims>>
    /\ UNCHANGED <<issuing, attempts, attemptsTtl, db,
                   grants, createdBy, wrong, aborts>>

\* findById of the session's account.
LoadAccount(r) ==
    /\ At(r, "account")
    /\ req[r].op # "phone_register"
    /\ Goto(r, IF req[r].op = "email_verify" THEN "verify" ELSE "grant")
    /\ UNCHANGED <<issuing, redis, db, history>>

\* markEmailVerified, a step of verifyEmail only.
MarkVerified(r) ==
    /\ At(r, "verify")
    /\ req[r].op = "email_verify"
    /\ verified' = verified \cup {session[req[r].tok].account}
    /\ Goto(r, "grant")
    /\ UNCHANGED <<issuing, redis, registered, history>>

\* Mutant: an upsert that goes on with the row it finds.
CreateOrReuse(r) ==
    /\ At(r, "account")
    /\ req[r].op = "phone_register"
    /\ registered' = registered \cup {session[req[r].tok].account}
    /\ createdBy' = IF session[req[r].tok].account \in registered THEN createdBy
                    ELSE createdBy \cup {<<session[req[r].tok].account, req[r].tok>>}
    /\ Goto(r, "grant")
    /\ UNCHANGED <<issuing, redis, verified, claims, grants, wrong, aborts>>

\* users.create of a phone registration; the unique phone makes it fail.
CreateAccount(r) ==
    /\ At(r, "account")
    /\ req[r].op = "phone_register"
    /\ LET t == req[r].tok
           a == session[t].account
       IN \/ /\ a \notin registered
             /\ registered' = registered \cup {a}
             /\ createdBy' = createdBy \cup {<<a, t>>}
             /\ Goto(r, "grant")
          \/ /\ a \in registered
             /\ End(r)
             /\ UNCHANGED <<registered, createdBy>>
    /\ UNCHANGED <<issuing, redis, verified, claims, grants, wrong, aborts>>

\* Mutant: a request answered with tokens is retried and answered again.
GrantAgain(r) ==
    /\ At(r, "grant")
    /\ grants' = [grants EXCEPT ![req[r].tok][req[r].op] = @ + 1]
    /\ req' \in {req, [req EXCEPT ![r] = Idle]}
    /\ UNCHANGED <<issuing, redis, db, claims, createdBy, wrong, aborts>>

\* issueAuthResponse: a token pair for the session's account.
Grant(r) ==
    /\ At(r, "grant")
    /\ grants' = [grants EXCEPT ![req[r].tok][req[r].op] = @ + 1]
    /\ End(r)
    /\ UNCHANGED <<issuing, redis, db, claims, createdBy, wrong, aborts>>

\* Where assertOtpMatch goes once a wrong guess is counted: burn or throw.
AfterCount(r, n) ==
    IF n >= MaxAttempts
    THEN req' = [req EXCEPT ![r].pc = "burn", ![r].n = n]
    ELSE End(r)

\* Mutant: the counter is never given an expiry.
CountForever(r) ==
    /\ At(r, "incr")
    /\ attempts' = [attempts EXCEPT ![req[r].tok] = @ + 1]
    /\ AfterCount(r, attempts[req[r].tok] + 1)
    /\ UNCHANGED <<issuing, ttl, attemptsTtl, db, history>>

\* INCR of the counter; the first failure goes on to give it an expiry.
CountFailure(r) ==
    /\ At(r, "incr")
    /\ LET t == req[r].tok
           n == attempts[t] + 1
       IN /\ attempts' = [attempts EXCEPT ![t] = n]
          /\ IF n = 1
             THEN req' = [req EXCEPT ![r].pc = "expire", ![r].n = n]
             ELSE AfterCount(r, n)
    /\ UNCHANGED <<issuing, ttl, attemptsTtl, db, history>>

\* EXPIRE of the counter, without effect when the key is gone.
BoundCounter(r) ==
    /\ At(r, "expire")
    /\ attemptsTtl' = IF attempts[req[r].tok] > 0
                      THEN [attemptsTtl EXCEPT ![req[r].tok] = CounterTtl]
                      ELSE attemptsTtl
    /\ AfterCount(r, req[r].n)
    /\ UNCHANGED <<issuing, ttl, attempts, db, history>>

\* Mutant: the counter is deleted first, the session left for later.
BurnCounterFirst(r) ==
    /\ At(r, "burn")
    /\ attempts' = [attempts EXCEPT ![req[r].tok] = 0]
    /\ attemptsTtl' = [attemptsTtl EXCEPT ![req[r].tok] = 0]
    /\ Goto(r, "clear")
    /\ UNCHANGED <<issuing, ttl, db, history>>

\* Too many failures: DEL of the session ...
BurnSession(r) ==
    /\ At(r, "burn")
    /\ ttl' = [ttl EXCEPT ![req[r].tok] = 0]
    /\ Goto(r, "clear")
    /\ UNCHANGED <<issuing, attempts, attemptsTtl, db, history>>

\* ... then DEL of its counter.
ClearCounter(r) ==
    /\ At(r, "clear")
    /\ attempts' = [attempts EXCEPT ![req[r].tok] = 0]
    /\ attemptsTtl' = [attemptsTtl EXCEPT ![req[r].tok] = 0]
    /\ End(r)
    /\ UNCHANGED <<issuing, ttl, db, history>>

\* A Redis or database error, or the death of the process, at any await.
Abort(r) ==
    /\ ~At(r, "idle")
    /\ aborts < MaxAborts
    /\ aborts' = aborts + 1
    /\ End(r)
    /\ UNCHANGED <<issuing, redis, db, claims, grants, createdBy, wrong>>

-----------------------------------------------------------------------------
\* One tick of Redis's clock: keys whose time is up disappear.
Tick ==
    /\ \E t \in Token : ttl[t] > 0 \/ attemptsTtl[t] > 0
    /\ ttl' = [t \in Token |-> IF ttl[t] > 0 THEN ttl[t] - 1 ELSE 0]
    /\ attemptsTtl' = [t \in Token |->
                         IF attemptsTtl[t] > 0 THEN attemptsTtl[t] - 1 ELSE 0]
    /\ attempts' = [t \in Token |-> IF attemptsTtl[t] = 1 THEN 0 ELSE attempts[t]]
    /\ UNCHANGED <<issuing, req, db, history>>

Issue(t) ==
    \/ \E a \in Account : \/ ResendEmailVerification(t, a) \/ LoginEmail(t, a)
                        \/ RegisterPhone(t, a) \/ LoginPhone(t, a)
    \/ StoreSession(t) \/ AnswerIssue(t) \/ WithdrawSession(t)

\* What a request does once it has been received.
Proceed(r) ==
    \/ ReadSession(r) \/ ClaimSession(r)
    \/ LoadAccount(r) \/ MarkVerified(r) \/ CreateAccount(r) \/ Grant(r)
    \/ CountFailure(r) \/ BoundCounter(r) \/ BurnSession(r) \/ ClearCounter(r)

Next ==
    \/ \E a \in Account : Register(a)
    \/ \E t \in Token : Issue(t)
    \/ \E r \in Request :
         \/ \E k \in Kind, t \in Token, right \in BOOLEAN : Receive(r, k, t, right)
         \/ Proceed(r)
         \/ Abort(r)
    \/ Tick

Spec == Init /\ [][Next]_vars

\* Node runs every handler it has started, and Redis's clock does not stop.
FairSpec ==
    /\ Spec
    /\ \A r \in Request : WF_vars(Proceed(r))
    /\ WF_vars(Tick)

-----------------------------------------------------------------------------
(* Properties *)

\* A session makes at most one request the owner of its flow, and at most
\* one token pair comes of it, whatever two verifies do between their GET
\* and their DEL ("Session already used", auth.service.ts).
SingleUse ==
    \A t \in Token :
        /\ claims[t] <= 1
        /\ \A k \in Kind : grants[t][k] <= claims[t]

\* A session minted for one flow never logs a client in through another
\* flow's verify endpoint, the two phone flows that share a key prefix
\* included (auth-session.types.ts).
OwnFlowOnly ==
    \A t \in Token, k \in Kind : grants[t][k] > 0 => session[t].kind = k

\* Of the phone registrations pending for one number at most one creates the
\* account, and the holder of another is never logged in to it.
RegistrantOwnsAccount ==
    /\ \A t \in Token : grants[t]["phone_register"] > 0
                          => <<session[t].account, t>> \in createdBy
    /\ \A x, y \in createdBy : x[1] = y[1] => x = y

\* The guesses a session answers before it is burned: one short of the limit,
\* and one more for each request that may already hold the session when the
\* limit is reached, or that is lost before it has burned the session.
GuessesBounded ==
    \A t \in Token :
        wrong[t] <= MaxAttempts - 1 + Cardinality(Request) + aborts

\* The counter never loses its count while the session it guards can still
\* be guessed at: it goes only after the session has gone.
CounterCoversSession ==
    [][\A t \in Token : attempts'[t] < attempts[t] => ttl'[t] = 0]_vars

\* No counter stays behind for good: unless a request was lost, it expires or
\* is deleted in the end, if after its session ("Bound the counter", assertOtpMatch).
CounterReclaimed ==
    \A t \in Token : attempts[t] > 0 ~> attempts[t] = 0 \/ aborts > 0

-----------------------------------------------------------------------------
(* The inductive invariant behind SingleUse, OwnFlowOnly and the refinement. *)

Minted(t) == issue[t] \notin {"none", "store"}
Claimed(r) == req[r].pc \in {"account", "verify", "grant"}

\* A session that is not stored yet has no past, a live one no claim.
SessionInv ==
    \A t \in Token :
        /\ issue[t] # "none" => session[t] \in Session
        /\ ~Minted(t) => /\ ttl[t] = 0 /\ claims[t] = 0
                         /\ \A k \in Kind : grants[t][k] = 0
        /\ ttl[t] > 0 => claims[t] = 0
        /\ claims[t] <= 1
        /\ \A k \in Kind : grants[t][k] > 0 => /\ session[t].kind = k
                                               /\ grants[t][k] = 1
                                               /\ claims[t] = 1

\* A request past the type check runs in its session's flow; one past the
\* claim is alone there, and its session has been granted nothing yet.
RequestInv ==
    \A r \in Request : req[r].pc # "idle" =>
        /\ Minted(req[r].tok)
        /\ req[r].pc # "get" => session[req[r].tok].kind = req[r].op
        /\ Claimed(r) => /\ claims[req[r].tok] = 1
                         /\ \A k \in Kind : grants[req[r].tok][k] = 0
                         /\ \A q \in Request :
                               Claimed(q) /\ q # r => req[q].tok # req[r].tok

\* Every account a session has created is registered, and is its own.
AccountInv ==
    /\ \A x \in createdBy : x[1] \in registered /\ Minted(x[2])
    /\ \A r \in Request : req[r].pc = "grant" /\ req[r].op = "phone_register"
            => <<session[req[r].tok].account, req[r].tok>> \in createdBy

IInv == TypeOK /\ SessionInv /\ RequestInv /\ AccountInv /\ RegistrantOwnsAccount

-----------------------------------------------------------------------------
(* What the sessions promise: OneTimeCode. *)

Phase(t) ==
    IF ~Minted(t) THEN "unborn"
    ELSE IF ttl[t] > 0 THEN "live"
    ELSE IF claims[t] > 0 THEN "used" ELSE "void"

PurposeOf(t) == IF Minted(t) THEN session[t].kind ELSE "none"

OneTimeCode == INSTANCE OneTimeCode WITH
    Purpose <- Kind,
    phase <- [t \in Token |-> Phase(t)],
    purpose <- [t \in Token |-> PurposeOf(t)]

\* Every step of the handlers is a step of the one-time-code life cycle, or
\* changes nothing that it speaks of.
OneTimeCodeSpec == OneTimeCode!Spec
=============================================================================
